---- MODULE Spec2Model ----
(***************************************************************************)
(* Normalization layers of flax.nnx (src/flax/nnx/nn/normalization.py):     *)
(* the statistics function _compute_stats, BatchNorm with its running      *)
(* statistics, GroupNorm, LayerNorm, InstanceNorm, and the                  *)
(* parameter-rewriting wrappers WeightNorm and SpectralNorm.                *)
(*                                                                         *)
(* Numbers.  A float is modelled as a fixed-point integer, n standing for   *)
(* n / ONE, and every multiplication, division and rsqrt rounds to the      *)
(* nearest representable value, as a float operation does.  NaN is the one  *)
(* special value; it propagates through every operation.  dtype promotion   *)
(* (float16/float32) is not modelled: every tensor has one precision.  The  *)
(* layers run on a single device (axis_name = None); the cross-device pmean *)
(* is modelled for _compute_stats alone (compute_stats_distributed).        *)
(*                                                                         *)
(* Tensors.  [shape |-> <<d1, ..., dk>>, data |-> row-major values].        *)
(***************************************************************************)
EXTENDS Integers, Sequences, FiniteSets, TLC

VARIABLES
  bn,      \* the BatchNorm instance: its attributes, mean and var included
  bn_ret,  \* the last BatchNorm.__call__: arguments, outcome, returned value
  wn,      \* the WeightNorm instance: attributes, wrapped layer, rngs
  wn_ret,  \* the last WeightNorm.__call__
  sn,      \* the SpectralNorm instance: attributes, wrapped layer, rngs
  sn_ret,  \* the last SpectralNorm.__call__
  calls,   \* number of __call__ invocations made so far
  gn,      \* the GroupNorm instance (None until one is constructed)
  gn_ret,  \* the last GroupNorm.__init__ / __call__
  inn,     \* the InstanceNorm instance
  inn_ret, \* the last InstanceNorm.__call__
  cs,      \* one _compute_stats application: its arguments and its result
  ca,      \* one _canonicalize_axes call: rank, axes, returned tuple
  nl       \* one call of a statistics-normalizing layer, with its trace

vars == <<bn, bn_ret, wn, wn_ret, sn, sn_ret, calls, gn, gn_ret, inn, inn_ret, cs, ca, nl>>

-----------------------------------------------------------------------------
(* Bounds of the model *)

\* fixed-point resolution: the integer n stands for the real n / ONE
ONE == 256
\* calls made on one instance in one behaviour
MaxCalls == 2
\* largest n_steps of a SpectralNorm instance
MaxSteps == 2

-----------------------------------------------------------------------------
(* Fixed-point arithmetic with NaN *)

NaN == -(2^30)

None == <<>>
Some(v) == <<v>>

Abs(a) == IF a < 0 THEN -a ELSE a
Sgn(a) == IF a < 0 THEN -1 ELSE IF a > 0 THEN 1 ELSE 0

\* n / d rounded to the nearest integer, halves away from zero (d > 0)
RoundDiv(n, d) == Sgn(n) * ((2 * Abs(n) + d) \div (2 * d))

FAdd(a, b) == IF a = NaN \/ b = NaN THEN NaN ELSE a + b
FSub(a, b) == IF a = NaN \/ b = NaN THEN NaN ELSE a - b
FMul(a, b) == IF a = NaN \/ b = NaN THEN NaN ELSE RoundDiv(a * b, ONE)
\* a / b; 0 / 0 is NaN.  Every divisor of the code is a count of selected
\* positions or a sigma guarded against zero, so x / 0 with x # 0 (an
\* infinity) does not arise.
FDiv(a, b) ==
  IF a = NaN \/ b = NaN \/ b = 0 THEN NaN
  ELSE Sgn(a) * Sgn(b) * RoundDiv(Abs(a) * ONE, Abs(b))
\* a maximum that skips an undefined operand (a variant, to compare against)
FMax_skipping(a, b) == IF a = NaN THEN b ELSE IF b = NaN \/ a >= b THEN a ELSE b
FMax(a, b) == IF a = NaN \/ b = NaN THEN NaN ELSE IF a >= b THEN a ELSE b

\* largest r with r * r <= n, by bisection on lo <= r < hi
RECURSIVE ISqrtIn(_, _, _)
ISqrtIn(n, lo, hi) ==
  IF hi - lo <= 1 THEN lo
  ELSE LET mid == (lo + hi) \div 2
       IN IF mid * mid <= n THEN ISqrtIn(n, mid, hi) ELSE ISqrtIn(n, lo, mid)
ISqrt(n) == ISqrtIn(n, 0, 46341)

\* lax.rsqrt: 1 / sqrt(a).  In fixed point ONE * sqrt(ONE / a), rounded to
\* nearest.  The argument is var + epsilon or a sum of squares + epsilon with
\* epsilon > 0, so a = 0 (an infinity) does not arise; a < 0 is NaN.
\* the reciprocal without the square root (a variant, to compare against)
rsqrt_reciprocal(a) == IF a = NaN \/ a <= 0 THEN NaN ELSE FDiv(ONE, a)
rsqrt(a) ==
  IF a = NaN \/ a <= 0 THEN NaN
  ELSE (ISqrt((4 * ONE * ONE * ONE) \div a) + 1) \div 2

-----------------------------------------------------------------------------
(* Tensors: a shape and the row-major data.  The data of a computed tensor *)
(* is written [i \in 1..n |-> e] \o <<>>, the tuple of its n elements.     *)

RECURSIVE Prod(_)
Prod(s) == IF Len(s) = 0 THEN 1 ELSE Head(s) * Prod(Tail(s))

Rank(t) == Len(t.shape)
Size(t) == Prod(t.shape)

\* row-major stride of axis position k (1-based) of a shape
Stride(shape, k) == Prod(SubSeq(shape, k + 1, Len(shape)))
\* coordinates of the flat index i (0-based) and back
Coords(i, shape) == [k \in 1..Len(shape) |-> (i \div Stride(shape, k)) % shape[k]]
RECURSIVE FlatFrom(_, _, _)
FlatFrom(c, shape, k) ==
  IF k > Len(shape) THEN 0 ELSE c[k] * Stride(shape, k) + FlatFrom(c, shape, k + 1)
Flat(c, shape) == FlatFrom(c, shape, 1)

\* x.reshape(shape): the row-major data is kept, the shape replaced
Reshape(t, shape) == [shape |-> shape, data |-> t.data]

\* numpy broadcasting of `t` to `shape`: shapes are aligned at their last
\* axis and an axis of size 1 (or a missing leading axis) is repeated
BroadcastAt(t, shape, i) ==
  LET c == Coords(i, shape)
      off == Len(shape) - Rank(t)
      tc == [k \in 1..Rank(t) |-> IF t.shape[k] = 1 THEN 0 ELSE c[k + off]]
  IN t.data[Flat(tc, t.shape) + 1]
BroadcastShape(a, b) ==
  [k \in 1..Len(a) |-> IF a[k] >= b[k] THEN a[k] ELSE b[k]]

\* the element of a one-element set.  Only({e(x) : x \in {v}}) is e(v) with v
\* computed once.
Only(S) == CHOOSE e \in S : TRUE

\* the arithmetic operation named op
Apply2(op, x, y) ==
  CASE op = "add" -> FAdd(x, y)
    [] op = "sub" -> FSub(x, y)
    [] op = "mul" -> FMul(x, y)
    [] op = "div" -> FDiv(x, y)
    [] op = "max" -> FMax(x, y)

\* elementwise binary operation on tensors of equal rank, with broadcasting
BinOp(op, a, b) ==
  Only({[shape |-> BroadcastShape(x.shape, y.shape),
         data |-> [i \in 1..Prod(BroadcastShape(x.shape, y.shape)) |->
                     Apply2(op, BroadcastAt(x, BroadcastShape(x.shape, y.shape), i - 1),
                                BroadcastAt(y, BroadcastShape(x.shape, y.shape), i - 1))]
                  \o <<>>] : x \in {a}, y \in {b}})
\* elementwise operation of a scalar and a tensor, and of a tensor and a scalar
ScalarOp(op, c, t) ==
  Only({[shape |-> x.shape,
         data |-> [i \in 1..Size(x) |-> Apply2(op, c, x.data[i])] \o <<>>] : x \in {t}})
OpScalar(op, t, c) ==
  Only({[shape |-> x.shape,
         data |-> [i \in 1..Size(x) |-> Apply2(op, x.data[i], c)] \o <<>>] : x \in {t}})
\* lax.rsqrt of a tensor
Rsqrt(t) ==
  Only({[shape |-> x.shape,
         data |-> [i \in 1..Size(x) |-> rsqrt(x.data[i])] \o <<>>] : x \in {t}})

-----------------------------------------------------------------------------
(* Optional values: None, or Some(v) *)

IsNone(o) == Len(o) = 0
Val(o) == o[1]

-----------------------------------------------------------------------------
(* _canonicalize_axes, _abs_sq, _compute_stats, _normalize, _l2_normalize *)

\* The axes as a set of non-negative indices.  `axes` is a set of ints; a
\* single int a is passed as {a}, which is what the isinstance test does.
canonicalize_axes(rank, axes) == {IF axis < 0 THEN rank + axis ELSE axis : axis \in axes}

\* |x|^2 of a real tensor (the complex branch needs complex inputs)
abs_sq(x) == BinOp("mul", x, x)

\* positions (1-based, ascending) of the axes of a rank that are not in `axes`
RECURSIVE KeptFrom(_, _, _)
KeptFrom(rank, axes, k) ==
  IF k > rank THEN <<>>
  ELSE (IF (k - 1) \in axes THEN <<>> ELSE <<k>>) \o KeptFrom(rank, axes, k + 1)
KeptPos(rank, axes) == KeptFrom(rank, axes, 1)

\* every position selected, whatever the mask (a variant, to compare against)
Selected_all(mask, shape, i) == TRUE
\* is position i of a tensor of `shape` selected by the optional mask
Selected(mask, shape, i) == IsNone(mask) \/ BroadcastAt(Val(mask), shape, i)

\* the sum of a sequence of values
RECURSIVE SumSeq(_)
SumSeq(q) == IF Len(q) = 0 THEN 0 ELSE FAdd(Head(q), SumSeq(Tail(q)))

RECURSIVE SumWhere(_, _, _)
\* sum of data[i + 1] over the flat indices i < n in the set `sel`
SumWhere(data, sel, n) ==
  IF n = 0 THEN 0
  ELSE FAdd(SumWhere(data, sel, n - 1), IF (n - 1) \in sel THEN data[n] ELSE 0)

\* x.mean(axes, where=mask): the sum of the selected positions of each slice
\* divided by their count; the reduced axes are dropped from the shape
mean_where(x, axes, mask) ==
  LET kp == KeptPos(Rank(x), axes)
      outShape == [n \in 1..Len(kp) |-> x.shape[kp[n]]]
      slice(t, j) == {i \in 0..(Size(t) - 1) :
                        /\ LET c == Coords(i, t.shape)
                           IN Flat([n \in 1..Len(kp) |-> c[kp[n]]], outShape) = j
                        /\ Selected(mask, t.shape, i)}
      mean_of(t, sel) == FDiv(SumWhere(t.data, sel, Size(t)), Cardinality(sel) * ONE)
  IN Only({[shape |-> outShape,
            data |-> [j \in 1..Prod(outShape) |->
                        Only({mean_of(t, sel) : sel \in {slice(t, j - 1)}})] \o <<>>] :
             t \in {x}})

\* jnp.maximum(0.0, v)
clip_negative_off(v) == v
clip_negative(v) == ScalarOp("max", 0, v)

\* a mean that is not subtracted (a variant, to compare against)
expand_dims_zero(mu, shape, axes) ==
  [shape |-> [k \in 1..Len(shape) |-> IF (k - 1) \in axes THEN 1 ELSE shape[k]],
   data |-> [i \in 1..Size(mu) |-> 0] \o <<>>]
\* jnp.expand_dims(mu, axes): size-1 axes inserted at the reduced positions
expand_dims(mu, shape, axes) ==
  Reshape(mu, [k \in 1..Len(shape) |-> IF (k - 1) \in axes THEN 1 ELSE shape[k]])

\* the variance in place of the zeros (a variant, to compare against)
zeros_like_off(t) == t
\* jnp.zeros_like
zeros_like(t) == [shape |-> t.shape, data |-> [i \in 1..Size(t) |-> 0] \o <<>>]

compute_stats(x, axes_in, use_mean, use_fast_variance, mask) ==
  LET axes == canonicalize_axes(Rank(x), axes_in)
      maybe_distributed_mean(t) == mean_where(t, axes, mask)
  IN IF use_mean
     THEN IF use_fast_variance
          THEN Only({[mean |-> mu,
                      var  |-> clip_negative(BinOp("sub", mu2, abs_sq(mu)))] :
                       mu \in {maybe_distributed_mean(x)},
                       mu2 \in {maybe_distributed_mean(abs_sq(x))}})
          ELSE Only({[mean |-> mu,
                      var  |-> maybe_distributed_mean(
                                 abs_sq(BinOp("sub", x, expand_dims(mu, x.shape, axes))))] :
                       mu \in {maybe_distributed_mean(x)}})
     ELSE Only({[mean |-> zeros_like(var), var |-> var] :
                  var \in {maybe_distributed_mean(abs_sq(x))}})

\* lax.pmean over the device group: the mean, element by element, of the
\* values the devices hold
pmean(ts) ==
  [shape |-> ts[1].shape,
   data |-> [i \in 1..Size(ts[1]) |->
               FDiv(SumSeq([d \in 1..Len(ts) |-> ts[d].data[i]]), Len(ts) * ONE)] \o <<>>]

\* _compute_stats with an axis_name, on the devices of a group: xs[d] is the
\* input of device d; every device gets the same (mean, var)
compute_stats_distributed(xs, axes_in, use_mean, use_fast_variance, mask) ==
  LET axes == canonicalize_axes(Rank(xs[1]), axes_in)
      maybe_distributed_mean(ts) ==
        pmean([d \in 1..Len(ts) |-> mean_where(ts[d], axes, mask)] \o <<>>)
      squares == [d \in 1..Len(xs) |-> abs_sq(xs[d])] \o <<>>
      centred(mu) ==
        [d \in 1..Len(xs) |->
           abs_sq(BinOp("sub", xs[d], expand_dims(mu, xs[d].shape, axes)))] \o <<>>
  IN IF use_mean
     THEN IF use_fast_variance
          THEN Only({[mean |-> mu,
                      var  |-> clip_negative(BinOp("sub", mu2, abs_sq(mu)))] :
                       mu \in {maybe_distributed_mean(xs)},
                       mu2 \in {maybe_distributed_mean(squares)}})
          ELSE Only({[mean |-> mu,
                      var  |-> Only({maybe_distributed_mean(c) : c \in {centred(mu)}})] :
                       mu \in {maybe_distributed_mean(xs)}})
     ELSE Only({[mean |-> zeros_like(var), var |-> var] :
                  var \in {maybe_distributed_mean(squares)}})

normalize(x, mean, var, scale, bias, reduction_axes_in, feature_axes_in, epsilon) ==
  LET reduction_axes == canonicalize_axes(Rank(x), reduction_axes_in)
      feature_axes   == canonicalize_axes(Rank(x), feature_axes_in)
      stats_shape    == [k \in 1..Rank(x) |->
                           IF (k - 1) \in reduction_axes THEN 1 ELSE x.shape[k]]
      feature_shape  == [k \in 1..Rank(x) |->
                           IF (k - 1) \in feature_axes THEN x.shape[k] ELSE 1]
      y0   == BinOp("sub", x, Reshape(mean, stats_shape))
      mul0 == Rsqrt(OpScalar("add", Reshape(var, stats_shape), epsilon))
      mul  == IF IsNone(scale) THEN mul0
              ELSE BinOp("mul", mul0, Reshape(Val(scale), feature_shape))
      y1   == BinOp("mul", y0, mul)
  IN IF IsNone(bias) THEN y1
     ELSE BinOp("add", y1, Reshape(Val(bias), feature_shape))


\* the input as it is, not normalized (a variant, to compare against)
l2_normalize_off(x, axis, eps) == x
\* x * rsqrt(sum(x * x, axis, keepdims) + eps); axis = None sums everything
l2_normalize(x, axis, eps) ==
  LET axes == IF IsNone(axis) THEN 0..(Rank(x) - 1) ELSE Val(axis)
      kp   == KeptPos(Rank(x), axes)
      keep == [k \in 1..Rank(x) |-> IF (k - 1) \in axes THEN 1 ELSE x.shape[k]]
      ssum(sq, j) == SumWhere(sq.data,
                       {i \in 0..(Size(sq) - 1) :
                          \A n \in 1..Len(kp) :
                            Coords(i, sq.shape)[kp[n]] = Coords(j, keep)[kp[n]]},
                       Size(sq))
      nrm(sq) == [shape |-> keep,
                  data |-> [j \in 1..Prod(keep) |-> rsqrt(FAdd(ssum(sq, j - 1), eps))] \o <<>>]
  IN Only({BinOp("mul", x, nrm(sq)) : sq \in {BinOp("mul", x, x)}})

-----------------------------------------------------------------------------
(* flax.nnx.module.first_from: the first argument that is not None; None   *)
(* stands for the ValueError raised when every argument is None            *)

RECURSIVE first_from(_)
first_from(args) ==
  IF Len(args) = 0 THEN None
  ELSE IF ~IsNone(Head(args)) THEN Head(args)
  ELSE first_from(Tail(args))

-----------------------------------------------------------------------------
(* BatchNorm *)

\* jnp.zeros / jnp.ones of a shape
Full(shape, v) == [shape |-> shape, data |-> [i \in 1..Prod(shape) |-> v] \o <<>>]

\* the instance right after __init__: mean = 0, var = 1, scale and bias as
\* given (None when use_scale / use_bias is off)
BatchNorm_init(num_features, use_running_average, axis, momentum, epsilon, use_fast_variance, scale, bias) ==
  [mean |-> Full(<<num_features>>, 0),
   var  |-> Full(<<num_features>>, ONE),
   scale |-> scale,
   bias  |-> bias,
   num_features |-> num_features,
   use_running_average |-> use_running_average,
   axis |-> axis,
   momentum |-> momentum,
   epsilon |-> epsilon,
   use_fast_variance |-> use_fast_variance]

\* self.momentum * self.<stat>.value + (1 - self.momentum) * <stat>
RunningUpdateHalfway(momentum, old, new) ==
  BinOp("add", ScalarOp("mul", ONE \div 2, old), ScalarOp("mul", ONE \div 2, new))
RunningUpdateDifference(momentum, old, new) ==
  BinOp("sub", ScalarOp("mul", momentum, old),
              ScalarOp("mul", FSub(ONE, momentum), new))
RunningUpdateSwapped(momentum, old, new) ==
  BinOp("add", ScalarOp("mul", FSub(ONE, momentum), old),
              ScalarOp("mul", momentum, new))
RunningUpdate(momentum, old, new) ==
  BinOp("add", ScalarOp("mul", momentum, old),
              ScalarOp("mul", FSub(ONE, momentum), new))

\* lines 358-363: the per-call argument first, then the attribute
BN_mode_attribute_first(self, use_running_average_arg) ==
  first_from(<<self.use_running_average, use_running_average_arg>>)
BN_mode(self, use_running_average_arg) ==
  first_from(<<use_running_average_arg, self.use_running_average>>)

\* lines 364-365
BN_feature_axes(self, x) == canonicalize_axes(Rank(x), {self.axis})
BN_reduction_axes(self, x) ==
  {i \in 0..(Rank(x) - 1) : i \notin BN_feature_axes(self, x)}

\* lines 367-378: the (mean, var) that normalize the input
BN_stats_always_batch(self, x, use_running_average, mask) ==
  compute_stats(x, BN_reduction_axes(self, x), TRUE, self.use_fast_variance, mask)
BN_stats(self, x, use_running_average, mask) ==
  IF use_running_average
  THEN [mean |-> self.mean, var |-> self.var]
  ELSE compute_stats(x, BN_reduction_axes(self, x), TRUE,
                     self.use_fast_variance, mask)

\* lines 380-385: the instance after the call
BN_update(self, st, use_running_average) ==
  IF use_running_average THEN self
  ELSE [self EXCEPT !.mean = RunningUpdate(self.momentum, self.mean, st.mean),
                    !.var  = RunningUpdate(self.momentum, self.var, st.var)]

\* lines 387-390: the (mean, var) handed to _normalize are the local ones,
\* read before the running buffers were reassigned
BN_normalize_with_stored(self, st, use_running_average) ==
  [mean |-> BN_update(self, st, use_running_average).mean,
   var  |-> BN_update(self, st, use_running_average).var]
BN_normalize_with(self, st, use_running_average) == st

\* BatchNorm.__call__(x, use_running_average, mask=mask) on instance `self`:
\* the instance after the call and the value returned, or raised = TRUE
BatchNorm_call(self, x, use_running_average_arg, mask) ==
  LET use_running_average == BN_mode(self, use_running_average_arg)
  IN IF IsNone(use_running_average)
     THEN [raised |-> TRUE, self |-> self, mode |-> None, y |-> None]
     ELSE LET ura == Val(use_running_average)
              result(st, nst) ==
                [raised |-> FALSE,
                 self   |-> BN_update(self, st, ura),
                 mode   |-> use_running_average,
                 y      |-> Some(normalize(x, nst.mean, nst.var, self.scale, self.bias,
                                           BN_reduction_axes(self, x),
                                           BN_feature_axes(self, x), self.epsilon))]
          IN Only({Only({result(st, nst) : nst \in {BN_normalize_with(self, st, ura)}}) :
                     st \in {BN_stats(self, x, ura, mask)}})

-----------------------------------------------------------------------------
(* The BatchNorm system: one instance, called repeatedly *)

\* number of features, and the batch size of the inputs
NumFeatures == 2
BatchSize == 2
\* epsilon, in units of 1 / ONE: the smallest positive value
EpsilonBN == 1
MomentumBN == (3 * ONE) \div 4

Mat(rows, cols, d) == [shape |-> <<rows, cols>>, data |-> d]
Vec(d) == [shape |-> <<Len(d)>>, data |-> d]

\* inputs of shape (BatchSize, NumFeatures)
InputsBN ==
  {Mat(BatchSize, NumFeatures, [i \in 1..(BatchSize * NumFeatures) |-> d[((i - 1) % 4) + 1]]) :
     d \in {<<ONE, 2 * ONE, 3 * ONE, -ONE>>,
            <<-2 * ONE, ONE \div 2, -2 * ONE, 3 * ONE>>,
            <<0, ONE, 2 * ONE + 1, -ONE>>}}

\* masks: none, one of the input's shape, one of shape (NumFeatures,) that
\* broadcasts along the last axis
MasksBN ==
  {None,
   Some(Mat(BatchSize, NumFeatures,
            [i \in 1..(BatchSize * NumFeatures) |-> i # 2])),
   Some(Vec([i \in 1..NumFeatures |-> i # 2]))}

\* the (x, mask) of a call: every input without a mask, and the first two
\* with one of the two masks each
ArgsBN ==
  {a \in InputsBN \X MasksBN :
     \/ IsNone(a[2])
     \/ a[1].data[1] # 0 /\ (Rank(Val(a[2])) = 1) = (a[1].data[1] < 0)}

OptBool == {None, Some(TRUE), Some(FALSE)}

InitBN ==
  /\ bn \in {BatchNorm_init(NumFeatures, ura, axis, MomentumBN, EpsilonBN, fast,
                            Some(Vec([i \in 1..NumFeatures |-> i * ONE])),
                            Some(Vec([i \in 1..NumFeatures |-> (i - 1) * ONE]))) :
               ura \in OptBool, axis \in {-1, 0}, fast \in BOOLEAN}
  /\ bn_ret = [status |-> "init", x |-> Full(<<BatchSize, NumFeatures>>, 0),
               use_running_average |-> None, mask |-> None,
               mode |-> None, y |-> None]
  /\ wn = None /\ wn_ret = None /\ sn = None /\ sn_ret = None
  /\ gn = None /\ gn_ret = None /\ inn = None /\ inn_ret = None /\ cs = None
  /\ calls = 0
  /\ ca = None /\ nl = None

BNCall ==
  /\ calls < MaxCalls
  /\ \E a \in ArgsBN, ura \in OptBool :
       \E r \in {BatchNorm_call(bn, a[1], ura, a[2])} :
          /\ bn' = r.self
          /\ bn_ret' = [status |-> IF r.raised THEN "raised" ELSE "returned",
                        x |-> a[1], use_running_average |-> ura, mask |-> a[2],
                        mode |-> r.mode, y |-> r.y]
  /\ calls' = calls + 1
  /\ UNCHANGED <<wn, wn_ret, sn, sn_ret, gn, gn_ret, inn, inn_ret, cs, ca, nl>>

NextBN == BNCall

SpecBN == InitBN /\ [][NextBN]_vars

-----------------------------------------------------------------------------
(* The module system the wrappers use (flax.nnx): a layer's state is a      *)
(* mapping from paths (tuples of keys) to values.  nnx.state takes a        *)
(* snapshot of a layer, nnx.map_state visits every entry of the snapshot,   *)
(* nnx.update writes a state back into the layer.  The callback handed to   *)
(* map_state reads and assigns entries of the snapshot; it is given the     *)
(* values as they were extracted, the mapped state holds its result at each *)
(* visited path, and the entries it assigned under further keys are kept.   *)

EmptyState == [p \in {} |-> 0]

\* entries of g laid over f
Override(f, g) ==
  [p \in (DOMAIN f) \cup (DOMAIN g) |-> IF p \in DOMAIN g THEN g[p] ELSE f[p]]

\* nnx.PathContains(key): the key is one of the path's parts
PathContains(key, path) == \E i \in 1..Len(path) : path[i] = key

\* nnx.state(layer) / nnx.state(layer, [PathContains(f) for f in filters])
nnx_state(layer, filters) ==
  IF IsNone(filters) THEN layer
  ELSE [p \in {q \in DOMAIN layer : \E f \in Val(filters) : PathContains(f, q)}
          |-> layer[p]]

\* the state nnx.map_state returns: the callback's results at the visited
\* paths, and the entries the callback assigned
mapped_state(results, assigned) == Override(results, assigned)

\* nnx.update(layer, state)
nnx_update(layer, state) == Override(layer, state)

\* rngs.params(): the key of this draw; the count advances by one
rngs_params(rngs) == [key |-> rngs, rngs |-> rngs + 1]

-----------------------------------------------------------------------------
(* Matrices *)


At(m, i, j) == m.data[(i - 1) * m.shape[2] + j]

\* jnp.matmul of an (r, k) by a (k, c) matrix
matmul(a, b) ==
  Only({[shape |-> <<m.shape[1], n.shape[2]>>,
         data  |-> [e \in 1..(m.shape[1] * n.shape[2]) |->
                      SumSeq([l \in 1..m.shape[2] |->
                                FMul(At(m, ((e - 1) \div n.shape[2]) + 1, l),
                                     At(n, l, ((e - 1) % n.shape[2]) + 1))])]
                   \o <<>>] : m \in {a}, n \in {b}})

\* value.transpose([1, 0])
transpose(m) ==
  Only({[shape |-> <<a.shape[2], a.shape[1]>>,
         data  |-> [e \in 1..Size(a) |->
                      At(a, ((e - 1) % a.shape[1]) + 1, ((e - 1) \div a.shape[1]) + 1)]
                   \o <<>>] : a \in {m}})

\* the wrapped layer's __call__: a dense layer, x . kernel + bias, the kernel
\* taken as a (prod(leading dims), last dim) matrix
layer_call(layer, x) ==
  Only({BinOp("add", matmul(x, k2), Reshape(layer[<<"bias">>], <<1, k2.shape[2]>>)) :
          k2 \in {LET kernel == layer[<<"kernel">>]
                  IN Reshape(kernel, <<Size(kernel) \div kernel.shape[Rank(kernel)],
                                       kernel.shape[Rank(kernel)]>>)}})

-----------------------------------------------------------------------------
(* WeightNorm *)

\* scale_init(key, shape, dtype): initializers.ones or initializers.constant
scale_init(c, key, shape) == Full(shape, c)

\* a lookup that never finds the scale (a variant, to compare against)
scale_lookup_miss(state, scale_path) == FALSE
\* try: state[scale_path] / except KeyError: is the scale there
scale_lookup(state, scale_path) == scale_path \in DOMAIN state

\* lines 942-979, for one entry (path, vs) of the snapshot `state`
apply_weight_norm(self, state, rngs, path, vs) ==
  LET value == vs
      feature_axes == IF IsNone(self.feature_axes) THEN {}
                      ELSE canonicalize_axes(Rank(value), Val(self.feature_axes))
      reduction_axes == IF IsNone(self.feature_axes) THEN 0..(Rank(value) - 1)
                        ELSE {i \in 0..(Rank(value) - 1) : i \notin feature_axes}
      feature_shape == [k \in 1..Rank(value) |->
                          IF (k - 1) \in feature_axes THEN value.shape[k] ELSE 1]
      fpos == KeptPos(Rank(value), reduction_axes)
      reduced_feature_shape == [n \in 1..Len(fpos) |-> value.shape[fpos[n]]]
      value_bar == l2_normalize(value, Some(reduction_axes), self.epsilon)
      scale_path == Append(path, "scale")
      found == scale_lookup(state, scale_path)
      draw == rngs_params(rngs)
      scale == IF found THEN state[scale_path]
               ELSE scale_init(self.scale_init, draw.key, reduced_feature_shape)
  IN IF self.use_scale
     THEN [value    |-> BinOp("mul", value_bar, Reshape(scale, feature_shape)),
           assigned |-> IF found THEN EmptyState
                        ELSE [p \in {scale_path} |-> scale],
           rngs     |-> IF found THEN rngs ELSE draw.rngs,
           drew     |-> ~found,
           scale    |-> Some(scale)]
     ELSE [value |-> value_bar, assigned |-> EmptyState, rngs |-> rngs,
           drew |-> FALSE, scale |-> None]

\* nnx.map_state(apply_weight_norm, state): the entries still to visit, the
\* snapshot with what the callback assigned so far, the results so far
RECURSIVE wn_map_state(_, _, _, _)
wn_map_state(self, state0, todo, acc) ==
  IF todo = {} THEN acc
  ELSE LET path == CHOOSE p \in todo : TRUE
       IN Only({wn_map_state(self, state0, todo \ {path}, next) :
                  next \in
                    {[state    |-> Override(acc.state, r.assigned),
                      results  |-> Override(acc.results, [p \in {path} |-> r.value]),
                      assigned |-> Override(acc.assigned, r.assigned),
                      rngs     |-> r.rngs,
                      log      |-> Override(acc.log,
                                     [p \in {path} |-> [drew |-> r.drew, scale |-> r.scale]])] :
                       r \in {apply_weight_norm(self, acc.state, acc.rngs, path,
                                                state0[path])}}})

\* the whole state, whatever the filters (a variant, to compare against)
WN_state_unfiltered(self) == nnx_state(self.layer_instance, None)
\* lines 936-940: the entries of the wrapped layer the call rewrites
WN_state(self) == nnx_state(self.layer_instance, self.variable_filters)

\* WeightNorm.__call__(x)
WeightNorm_call(self, x) ==
  LET state == WN_state(self)
      finish(m) ==
        Only({[self |-> [self EXCEPT !.layer_instance = layer, !.rngs = m.rngs],
               log  |-> m.log,
               y    |-> layer_call(layer, x)] :
                layer \in {nnx_update(self.layer_instance,
                                      mapped_state(m.results, m.assigned))}})
  IN Only({finish(m) :
             m \in {wn_map_state(self, state, DOMAIN state,
                      [state |-> state, results |-> EmptyState, assigned |-> EmptyState,
                       rngs |-> self.rngs, log |-> EmptyState])}})

-----------------------------------------------------------------------------
(* WeightNorm around a dense layer: the system *)

FanIn == 2
FanOut == 2
EpsilonWN == 1

\* a tensor of a shape filled from a table of values, starting at `seed`
Table == <<3 * ONE, -ONE, 4 * ONE, ONE, -2 * ONE, ONE \div 2, 2 * ONE>>
Tabulate(shape, seed) ==
  [shape |-> shape,
   data  |-> [i \in 1..Prod(shape) |-> Table[((seed + i - 1) % Len(Table)) + 1]] \o <<>>]

\* the wrapped layer after its construction: a kernel and a bias
Dense(kernel, bias) ==
  [p \in {<<"kernel">>, <<"bias">>} |-> IF p = <<"kernel">> THEN kernel ELSE bias]

WeightNorm_init(layer_instance, epsilon, use_scale, scale_init_, feature_axes, variable_filters, rngs) ==
  [layer_instance |-> layer_instance, epsilon |-> epsilon,
   use_scale |-> use_scale, scale_init |-> scale_init_,
   feature_axes |-> feature_axes, variable_filters |-> variable_filters,
   rngs |-> rngs]

InputsWN == {Tabulate(<<1, FanIn>>, seed) : seed \in {1, 4}}

\* the kernels of the wrapped layer: two without a zero, and one whose first
\* column (along the last axis) is zero
KernelsWN ==
  {Tabulate(<<FanIn, FanOut>>, 0), Tabulate(<<FanIn, FanOut>>, 3),
   [shape |-> <<FanIn, FanOut>>,
    data |-> [i \in 1..(FanIn * FanOut) |-> IF i % FanOut = 1 THEN 0 ELSE i * ONE]]}

\* scale_init fills the scale with ones (the default), or with 2 or -1
InitWN ==
  /\ wn \in {Some(WeightNorm_init(Dense(kernel, Tabulate(<<FanOut>>, 1)),
                                  EpsilonWN, use_scale, c, feature_axes,
                                  variable_filters, 0)) :
               kernel \in KernelsWN, use_scale \in BOOLEAN, c \in {ONE, 2 * ONE, -ONE},
               feature_axes \in {Some({-1}), None},
               variable_filters \in {Some({"kernel"}), None}}
  /\ wn_ret = [status |-> "init"]
  /\ bn = None /\ bn_ret = None /\ sn = None /\ sn_ret = None
  /\ gn = None /\ gn_ret = None /\ inn = None /\ inn_ret = None /\ cs = None
  /\ calls = 0
  /\ ca = None /\ nl = None

\* y = weight_norm(x)
WNCall ==
  /\ calls < MaxCalls
  /\ \E x \in InputsWN :
       \E r \in {WeightNorm_call(Val(wn), x)} :
         /\ wn' = Some(r.self)
         /\ wn_ret' = [status |-> "returned", x |-> x, y |-> r.y, log |-> r.log,
                        before |-> Val(wn).layer_instance]
  /\ calls' = calls + 1
  /\ UNCHANGED <<bn, bn_ret, sn, sn_ret, gn, gn_ret, inn, inn_ret, cs, ca, nl>>

\* after a call the user replaces the value of a parameter of the wrapped
\* layer (a training step, or nnx.update with values from elsewhere)
WNAssign ==
  /\ wn_ret.status = "returned"
  /\ \E p \in DOMAIN Val(wn).layer_instance : \E seed \in {2} :
       /\ wn' = Some([Val(wn) EXCEPT !.layer_instance[p] =
                        Tabulate(Val(wn).layer_instance[p].shape, seed)])
       /\ wn_ret' = [status |-> "assigned", path |-> p]
  /\ UNCHANGED <<bn, bn_ret, sn, sn_ret, calls, gn, gn_ret, inn, inn_ret, cs, ca, nl>>

NextWN == WNCall \/ WNAssign
SpecWN == InitWN /\ [][NextWN]_vars

-----------------------------------------------------------------------------
(* SpectralNorm *)

\* '/'.join(str(k) for k in path)
RECURSIVE Join(_)
Join(path) ==
  IF Len(path) = 0 THEN ""
  ELSE IF Len(path) = 1 THEN path[1]
  ELSE path[1] \o "/" \o Join(Tail(path))

\* collection_name + '/' + '/'.join(path) + '/u'  (and '/sigma')
var_name(self, path, leaf) == self.collection_name \o "/" \o Join(path) \o "/" \o leaf

\* state[name] of a snapshot: the entry under the one-key path
key_path(name) == <<name>>

\* jax.random.normal(key, shape): a tensor that depends on the key
random_normal(key, shape) == Tabulate(shape, 2 * key)

\* a rank-0 tensor
Scalar(v) == [shape |-> <<>>, data |-> <<v>>]

\* lines 1161-1165: n power iteration steps from u; the last v and u
RECURSIVE power_iteration(_, _, _, _, _)
power_iteration(value, u, v, n, eps) ==
  IF n = 0 THEN [u |-> u, v |-> v]
  ELSE Only({power_iteration(value, u1, v1, n - 1, eps) :
               <<v1, u1>> \in
                 {<<w, l2_normalize(matmul(w, value), None, eps)>> :
                    w \in {l2_normalize(matmul(u, transpose(value)), None, eps)}}})

\* a callback that assigns nothing (a variant, to compare against)
SN_persist_never(update_stats, u_var_name, u, sigma_var_name, sigma) == EmptyState
\* lines 1175-1177: what the callback assigns in the snapshot
SN_persist(update_stats, u_var_name, u, sigma_var_name, sigma) ==
  IF update_stats
  THEN [p \in {key_path(u_var_name), key_path(sigma_var_name)} |->
          IF p = key_path(u_var_name) THEN u ELSE Scalar(sigma)]
  ELSE EmptyState

\* the skip test without its n_steps < 1 half (a variant, to compare against)
SN_guard_rank_only(self, value) ==
  IF Rank(value) <= 1 THEN "skip"
  ELSE IF Rank(value) > 2 /\ self.error_on_non_matrix THEN "raise"
  ELSE "normalize"
\* the rank > 2 test made before the skip test (a variant, to compare against)
SN_guard_error_first(self, value) ==
  IF Rank(value) > 2 /\ self.error_on_non_matrix THEN "raise"
  ELSE IF Rank(value) <= 1 \/ self.n_steps < 1 THEN "skip"
  ELSE "normalize"
\* lines 1122-1129: "skip", "raise" or "normalize"
SN_guard(self, value) ==
  IF Rank(value) <= 1 \/ self.n_steps < 1 THEN "skip"
  ELSE IF Rank(value) > 2 /\ self.error_on_non_matrix THEN "raise"
  ELSE "normalize"

\* no division at all (a variant, to compare against)
SN_divisor_one(sigma) == ONE
\* jnp.where(sigma != 0, sigma, 1)
SN_divisor_unguarded(sigma) == sigma
SN_divisor(sigma) == IF sigma # 0 THEN sigma ELSE ONE

\* lines 1116-1180, for one entry (path, vs) of the snapshot `state`
spectral_normalize(self, state, rngs, update_stats, path, vs) ==
  LET value_shape == vs.shape
      guard == SN_guard(self, vs)
      u_var_name == var_name(self, path, "u")
      sigma_var_name == var_name(self, path, "sigma")
      found == key_path(u_var_name) \in DOMAIN state
      draw == rngs_params(rngs)
      \* lines 1161-1180, from the flattened value and the first u
      normalized(value, u0) ==
        Only({LET sigma == At(matmul(matmul(it.v, value), transpose(it.u)), 1, 1)
                  d == SN_divisor(sigma)
              IN [raised |-> FALSE,
                  value |-> Reshape(OpScalar("div", value, d), value_shape),
                  assigned |-> SN_persist(update_stats, u_var_name, it.u,
                                          sigma_var_name, sigma),
                  rngs |-> IF found THEN rngs ELSE draw.rngs,
                  log |-> [guard |-> guard, drew |-> ~found, u0 |-> u0, u |-> it.u,
                           sigma |-> sigma, matrix |-> value]] :
                it \in {power_iteration(value, u0, u0, self.n_steps, self.epsilon)}})
  IN IF guard = "skip"
     THEN [raised |-> FALSE, value |-> vs, assigned |-> EmptyState, rngs |-> rngs,
           log |-> [guard |-> guard]]
     ELSE IF guard = "raise"
     THEN [raised |-> TRUE, value |-> vs, assigned |-> EmptyState, rngs |-> rngs,
           log |-> [guard |-> guard]]
     ELSE Only({normalized(value, u0) :
                  value \in {Reshape(vs, <<Size(vs) \div vs.shape[Rank(vs)],
                                           vs.shape[Rank(vs)]>>)},
                  u0 \in {IF found THEN state[key_path(u_var_name)]
                          ELSE random_normal(draw.key, <<1, vs.shape[Rank(vs)]>>)}})

\* nnx.map_state(spectral_normalize, state); a raise ends the call
RECURSIVE sn_map_state(_, _, _, _, _)
sn_map_state(self, state0, update_stats, todo, acc) ==
  IF todo = {} \/ acc.raised THEN acc
  ELSE LET path == CHOOSE p \in todo : TRUE
       IN Only({sn_map_state(self, state0, update_stats, todo \ {path}, next) :
                  next \in
                    {[raised   |-> r.raised,
                      state    |-> Override(acc.state, r.assigned),
                      results  |-> Override(acc.results, [p \in {path} |-> r.value]),
                      assigned |-> Override(acc.assigned, r.assigned),
                      rngs     |-> r.rngs,
                      log      |-> Override(acc.log, [p \in {path} |-> r.log])] :
                       r \in {spectral_normalize(self, acc.state, acc.rngs, update_stats,
                                                 path, state0[path])}}})

\* the results mapped so far written into the layer even when the callback
\* raised (a variant, to compare against)
SN_written_partial(self, m) ==
  nnx_update(self.layer_instance, mapped_state(m.results, m.assigned))
\* lines 1182-1183: nnx.update runs once nnx.map_state has returned; a raise
\* inside the callback leaves the layer as it was
SN_written(self, m) ==
  IF m.raised THEN self.layer_instance
  ELSE nnx_update(self.layer_instance, mapped_state(m.results, m.assigned))

\* SpectralNorm.__call__(x, update_stats=...)
SpectralNorm_call(self, x, update_stats) ==
  LET state == nnx_state(self.layer_instance, None)
      finish(m) ==
        Only({[raised |-> m.raised,
               self |-> [self EXCEPT !.layer_instance = layer, !.rngs = m.rngs],
               log |-> m.log,
               y |-> IF m.raised THEN None ELSE Some(layer_call(layer, x))] :
                layer \in {SN_written(self, m)}})
  IN Only({finish(m) :
             m \in {sn_map_state(self, state, update_stats, DOMAIN state,
                      [raised |-> FALSE, state |-> state, results |-> EmptyState,
                       assigned |-> EmptyState, rngs |-> self.rngs, log |-> EmptyState])}})

-----------------------------------------------------------------------------
(* SpectralNorm around a dense layer: the system *)

EpsilonSN == 1

SpectralNorm_init(layer_instance, n_steps, epsilon, error_on_non_matrix, collection_name, rngs) ==
  [layer_instance |-> layer_instance, n_steps |-> n_steps, epsilon |-> epsilon,
   error_on_non_matrix |-> error_on_non_matrix,
   collection_name |-> collection_name, rngs |-> rngs]

\* kernels: a matrix, and a rank-3 tensor
KernelShapesSN == {<<FanIn, FanOut>>, <<FanIn, 2, FanOut>>}

\* the kernels of a shape: one filled from the table, and one whose rows are
\* all orthogonal to the first u drawn (random_normal(0, ...) starts 3, -1)
KernelsSN(shape) ==
  {Tabulate(shape, 0),
   [shape |-> shape,
    data |-> [i \in 1..Prod(shape) |->
                (((i - 1) \div shape[Len(shape)]) + 1) *
                  (CASE (i - 1) % shape[Len(shape)] = 0 -> ONE
                     [] (i - 1) % shape[Len(shape)] = 1 -> 3 * ONE
                     [] OTHER -> 0)] \o <<>>]}

\* a u and a sigma for the kernel, stored in the wrapped layer with nnx.update
\* before the first call
StoredStateSN ==
  [k \in {<<"batch_stats/kernel/u">>, <<"batch_stats/kernel/sigma">>} |->
     IF k = <<"batch_stats/kernel/u">> THEN Tabulate(<<1, FanOut>>, 5) ELSE Scalar(ONE)]

\* inputs of the wrapped layer: one row, as long as the kernel's leading axes
InputsSN(layer) ==
  LET kernel == layer[<<"kernel">>]
  IN {Tabulate(<<1, Size(kernel) \div kernel.shape[Rank(kernel)]>>, seed) :
        seed \in {1, 4}}

\* the wrapped layers at construction: each kernel shape filled from the
\* table, and for matrices also the second kernel, and a stored u and sigma
LayersSN ==
  {Dense(Tabulate(shape, 0), Tabulate(<<FanOut>>, 1)) : shape \in KernelShapesSN}
    \cup {Dense(kernel, Tabulate(<<FanOut>>, 1)) : kernel \in KernelsSN(<<FanIn, FanOut>>)}
    \cup {Override(Dense(Tabulate(<<FanIn, FanOut>>, 0), Tabulate(<<FanOut>>, 1)),
                   StoredStateSN)}

\* layers with a second parameter next to the kernel: one of the two is a
\* matrix and the other a rank-3 tensor, so that whichever nnx.map_state
\* visits first, one layer has an eligible matrix ahead of the rank-3 tensor
MixedLayersSN ==
  {Override(Dense(kernel, Tabulate(<<FanOut>>, 1)), [p \in {<<"embedding">>} |-> embedding]) :
     <<kernel, embedding>> \in
       {<<Tabulate(<<FanIn, 2, FanOut>>, 0), Tabulate(<<FanIn, FanOut>>, 3)>>,
        <<Tabulate(<<FanIn, FanOut>>, 0), Tabulate(<<FanIn, 2, FanOut>>, 3)>>}}

InitSN ==
  /\ sn \in {Some(SpectralNorm_init(layer, n_steps, EpsilonSN, error_on_non_matrix,
                                    "batch_stats", 0)) :
               layer \in LayersSN,
               n_steps \in 0..MaxSteps,
               error_on_non_matrix \in BOOLEAN}
            \cup {Some(SpectralNorm_init(layer, n_steps, EpsilonSN, TRUE,
                                         "batch_stats", 0)) :
                    layer \in MixedLayersSN, n_steps \in 0..MaxSteps}
  /\ sn_ret = [status |-> "init"]
  /\ bn = None /\ bn_ret = None /\ wn = None /\ wn_ret = None
  /\ gn = None /\ gn_ret = None /\ inn = None /\ inn_ret = None /\ cs = None
  /\ calls = 0
  /\ ca = None /\ nl = None

\* y = spectral_norm(x, update_stats=...)
SNCall ==
  /\ calls < MaxCalls
  /\ \E x \in InputsSN(Val(sn).layer_instance), update_stats \in BOOLEAN :
       \E r \in {SpectralNorm_call(Val(sn), x, update_stats)} :
         /\ sn' = Some(r.self)
         /\ sn_ret' = [status |-> IF r.raised THEN "raised" ELSE "returned",
                        x |-> x, update_stats |-> update_stats, y |-> r.y,
                        log |-> r.log, before |-> Val(sn).layer_instance,
                        previous |-> IF sn_ret.status = "returned"
                                     THEN Some([x |-> sn_ret.x, y |-> sn_ret.y,
                                                update_stats |-> sn_ret.update_stats])
                                     ELSE None]
  /\ calls' = calls + 1
  /\ UNCHANGED <<bn, bn_ret, wn, wn_ret, gn, gn_ret, inn, inn_ret, cs, ca, nl>>

\* after a call the user replaces the value of an entry of the wrapped layer
\* (a training step, or nnx.update with values from elsewhere)
SNAssign ==
  /\ sn_ret.status = "returned"
  /\ \E p \in DOMAIN Val(sn).layer_instance :
       /\ sn' = Some([Val(sn) EXCEPT !.layer_instance[p] =
                        Tabulate(Val(sn).layer_instance[p].shape, 2)])
       /\ sn_ret' = [status |-> "assigned", path |-> p]
  /\ UNCHANGED <<bn, bn_ret, wn, wn_ret, calls, gn, gn_ret, inn, inn_ret, cs, ca, nl>>

NextSN == SNCall \/ SNAssign
SpecSN == InitSN /\ [][NextSN]_vars

-----------------------------------------------------------------------------
(* SpectralNorm with many power iteration steps *)

\* n_steps of the instances: enough for power iteration to settle
ManySteps == 10

\* the wrapped layers of before, and one with an all-zero kernel; rank-3
\* kernels are flattened (error_on_non_matrix = False)
InitSNMany ==
  /\ sn \in {Some(SpectralNorm_init(layer, ManySteps, EpsilonSN, FALSE, "batch_stats", 0)) :
               layer \in LayersSN \cup {Dense(Full(<<FanIn, FanOut>>, 0), Tabulate(<<FanOut>>, 1))}}
  /\ sn_ret = [status |-> "init"]
  /\ bn = None /\ bn_ret = None /\ wn = None /\ wn_ret = None
  /\ gn = None /\ gn_ret = None /\ inn = None /\ inn_ret = None /\ cs = None
  /\ ca = None /\ nl = None
  /\ calls = 0

SpecSNMany == InitSNMany /\ [][NextSN]_vars

-----------------------------------------------------------------------------
(* GroupNorm *)

\* Python's a % b and a // b for b # 0 (the sign of the remainder is b's)
PyMod(a, b) == IF b > 0 THEN a % b ELSE -((-a) % (-b))
PyFloorDiv(a, b) == (a - PyMod(a, b)) \div b

\* the default of the num_groups parameter
DefaultNumGroups == 32

\* the first test of __init__: both of num_groups, group_size None, or neither
GN_conflict_neither_only(num_groups, group_size) ==
  IsNone(num_groups) /\ IsNone(group_size)
GN_conflict(num_groups, group_size) ==
  \/ (IsNone(num_groups) /\ IsNone(group_size))
  \/ (~IsNone(num_groups) /\ ~IsNone(group_size))

\* GroupNorm.__init__: raised = TRUE, or the instance.  group_size = 0 ends
\* in the ZeroDivisionError of num_features % group_size.
GroupNorm_init(num_features, num_groups, group_size, epsilon, reduction_axes, use_fast_variance, scale, bias) ==
  LET instance(ng, gs) ==
        [raised |-> FALSE,
         self |-> [feature_axis |-> -1,
                   num_groups |-> ng,
                   group_size |-> gs,
                   scale |-> scale,
                   bias |-> bias,
                   epsilon |-> epsilon,
                   reduction_axes |-> reduction_axes,
                   use_fast_variance |-> use_fast_variance]]
      error == [raised |-> TRUE, self |-> None]
  IN IF GN_conflict(num_groups, group_size) THEN error
     ELSE IF ~IsNone(group_size)
     THEN IF Val(group_size) = 0 THEN error
          ELSE IF PyMod(num_features, Val(group_size)) # 0 THEN error
          ELSE instance(PyFloorDiv(num_features, Val(group_size)), Val(group_size))
     ELSE IF Val(num_groups) <= 0 \/ PyMod(num_features, Val(num_groups)) # 0
          THEN error
          ELSE instance(Val(num_groups), PyFloorDiv(num_features, Val(num_groups)))

\* jnp.repeat(t, repeats, axis): every index along `axis` repeated in place
repeat(t, repeats, axis) ==
  LET shape == [k \in 1..Rank(t) |-> IF k = axis + 1 THEN t.shape[k] * repeats
                                     ELSE t.shape[k]]
      src(i) == LET c == Coords(i, shape)
                IN Flat([k \in 1..Rank(t) |-> IF k = axis + 1 THEN c[k] \div repeats
                                              ELSE c[k]], t.shape)
  IN [shape |-> shape, data |-> [i \in 1..Prod(shape) |-> t.data[src(i - 1) + 1]] \o <<>>]

\* the reduction axes of a call, canonicalized
GN_reduction_axes(self, x) ==
  canonicalize_axes(Rank(x),
                    IF ~IsNone(self.reduction_axes) THEN Val(self.reduction_axes)
                    ELSE (1..(Rank(x) - 2)) \cup {-1})

\* reduction_axes[:-1]: the canonicalized axes come as tuple(set), which
\* lists small non-negative ints in ascending order, so the greatest is dropped
GN_all_axes(axes) == axes
GN_leading_axes(axes) ==
  axes \ {a \in axes : \A b \in axes : b <= a}

\* the group whose statistic normalizes channel c: jnp.repeat along axis 1
GN_spread_tiled(t, group_size) ==
  LET shape == [k \in 1..Rank(t) |-> IF k = 2 THEN t.shape[k] * group_size
                                     ELSE t.shape[k]]
      src(i) == LET c == Coords(i, shape)
                IN Flat([k \in 1..Rank(t) |-> IF k = 2 THEN c[k] % t.shape[k]
                                              ELSE c[k]], t.shape)
  IN [shape |-> shape, data |-> [i \in 1..Prod(shape) |-> t.data[src(i - 1) + 1]] \o <<>>]
GN_spread(t, group_size) == repeat(t, group_size, 1)

\* GroupNorm.__call__(x, mask=mask): the value returned and the repeated
\* statistics, or raised = TRUE when a reshape is impossible
GroupNorm_call(self, x, mask) ==
  LET reduction_axes == GN_reduction_axes(self, x)
      lead == GN_leading_axes(reduction_axes)
      group_of(shape) == SubSeq(shape, 1, Len(shape) - 1)
                           \o <<self.num_groups, self.group_size>>
      group_shape == group_of(x.shape)
      gmask == IF IsNone(mask) THEN None
               ELSE Some(Reshape(Val(mask), group_of(Val(mask).shape)))
      error == [raised |-> TRUE, y |-> None, mean |-> None, var |-> None]
      result(mean, var) ==
        [raised |-> FALSE,
         y |-> Some(normalize(x, mean, var, self.scale, self.bias, lead,
                              {self.feature_axis}, self.epsilon)),
         mean |-> Some(mean), var |-> Some(var)]
  IN IF Prod(group_shape) # Size(x) THEN error
     ELSE IF ~IsNone(mask) /\ Prod(Val(gmask).shape) # Size(Val(mask)) THEN error
     ELSE Only({IF Rank(st.mean) < 2 THEN error
                ELSE Only({result(mean, var) :
                             mean \in {GN_spread(st.mean, self.group_size)},
                             var \in {GN_spread(st.var, self.group_size)}}) :
                  st \in {compute_stats(Reshape(x, group_shape), lead \cup {-1}, TRUE,
                                        self.use_fast_variance, gmask)}})

-----------------------------------------------------------------------------
(* The GroupNorm system: a construction, then calls of the instance *)

\* number of channels (num_features)
NumChannels == 4
EpsilonGN == 1

\* an optional int: None, or one of a set
OptInt(S) == {None} \cup {Some(n) : n \in S}

\* the arguments of a construction: the default num_groups included
InitArgsGN ==
  [num_groups : OptInt((0..NumChannels) \cup {DefaultNumGroups}),
   group_size : OptInt(0..NumChannels),
   reduction_axes : {None, Some({-1})},
   use_fast_variance : BOOLEAN]

\* inputs of shape (BatchSize, NumChannels) and (BatchSize, 2, NumChannels)
InputsGN ==
  {Tabulate(<<BatchSize, NumChannels>>, 0), Tabulate(<<BatchSize, NumChannels>>, 3),
   Tabulate(<<BatchSize, 2, NumChannels>>, 1)}

\* masks: none, one of the input's shape, one of shape (NumChannels,)
MasksGN(x) ==
  {None,
   Some([shape |-> x.shape, data |-> [i \in 1..Size(x) |-> i % 3 # 0] \o <<>>]),
   Some(Vec([i \in 1..NumChannels |-> i # 2]))}

InitGN ==
  /\ gn = None
  /\ gn_ret = [status |-> "none", args |-> None, x |-> None, mask |-> None,
               y |-> None, mean |-> None, var |-> None]
  /\ bn = None /\ bn_ret = None /\ wn = None /\ wn_ret = None
  /\ sn = None /\ sn_ret = None /\ inn = None /\ inn_ret = None /\ cs = None
  /\ calls = 0
  /\ ca = None /\ nl = None

\* GroupNorm(NumChannels, num_groups, group_size, ...)
GNInit ==
  /\ gn_ret.status = "none"
  /\ \E a \in InitArgsGN :
       \E r \in {GroupNorm_init(NumChannels, a.num_groups, a.group_size, EpsilonGN,
                                a.reduction_axes, a.use_fast_variance,
                                Some(Vec([i \in 1..NumChannels |-> i * ONE])),
                                Some(Vec([i \in 1..NumChannels |-> (i - 1) * ONE])))} :
          /\ gn' = IF r.raised THEN None ELSE Some(r.self)
          /\ gn_ret' = [gn_ret EXCEPT !.status = IF r.raised THEN "init_raised"
                                                  ELSE "constructed",
                                      !.args = Some(a)]
  /\ UNCHANGED <<bn, bn_ret, wn, wn_ret, sn, sn_ret, calls, inn, inn_ret, cs, ca, nl>>

GNCall ==
  /\ ~IsNone(gn)
  /\ calls < MaxCalls
  /\ \E x \in InputsGN :
       \E mask \in MasksGN(x) :
          \E r \in {GroupNorm_call(Val(gn), x, mask)} :
             gn_ret' = [gn_ret EXCEPT !.status = IF r.raised THEN "raised" ELSE "returned",
                                      !.x = Some(x), !.mask = mask, !.y = r.y,
                                      !.mean = r.mean, !.var = r.var]
  /\ calls' = calls + 1
  /\ UNCHANGED <<bn, bn_ret, wn, wn_ret, sn, sn_ret, gn, inn, inn_ret, cs, ca, nl>>

NextGN == GNInit \/ GNCall
SpecGN == InitGN /\ [][NextGN]_vars

-----------------------------------------------------------------------------
(* LayerNorm *)

\* the instance right after __init__
LayerNorm_init(num_features, epsilon, reduction_axes, feature_axes, use_fast_variance, scale, bias) ==
  [scale |-> scale,
   bias |-> bias,
   num_features |-> num_features,
   epsilon |-> epsilon,
   reduction_axes |-> reduction_axes,
   feature_axes |-> feature_axes,
   use_fast_variance |-> use_fast_variance]

\* LayerNorm.__call__(x, mask=mask): the value returned
LayerNorm_call(self, x, mask) ==
  Only({normalize(x, st.mean, st.var, self.scale, self.bias, self.reduction_axes,
                  self.feature_axes, self.epsilon) :
          st \in {compute_stats(x, self.reduction_axes, TRUE, self.use_fast_variance,
                                mask)}})

-----------------------------------------------------------------------------
(* InstanceNorm *)

\* the instance right after __init__
InstanceNorm_init(num_features, epsilon, feature_axes, use_fast_variance, scale, bias) ==
  [scale |-> scale,
   bias |-> bias,
   num_features |-> num_features,
   epsilon |-> epsilon,
   feature_axes |-> feature_axes,
   use_fast_variance |-> use_fast_variance]

\* 0 in _canonicalize_axes(x.ndim, self.feature_axes)
IN_rejects_uncanonicalized(rank, feature_axes) == 0 \in feature_axes
IN_rejects(rank, feature_axes) == 0 \in canonicalize_axes(rank, feature_axes)

\* line 1331: [i for i in range(1, x.ndim) if i not in feature_axes]
IN_reduction_axes_all(rank, feature_axes) == 1..(rank - 1)
IN_reduction_axes(rank, feature_axes) ==
  {i \in 1..(rank - 1) : i \notin canonicalize_axes(rank, feature_axes)}

\* InstanceNorm.__call__(x, mask=mask): raised = TRUE with no statistic
\* computed, or the statistics and the value returned
InstanceNorm_call(self, x, mask) ==
  LET feature_axes == canonicalize_axes(Rank(x), self.feature_axes)
      reduction_axes == IN_reduction_axes(Rank(x), self.feature_axes)
  IN IF IN_rejects(Rank(x), self.feature_axes)
     THEN [raised |-> TRUE, stats |-> None, y |-> None]
     ELSE Only({[raised |-> FALSE,
                 stats |-> Some(st),
                 y |-> Some(normalize(x, st.mean, st.var, self.scale, self.bias,
                                      reduction_axes, feature_axes, self.epsilon))] :
                  st \in {compute_stats(x, reduction_axes, TRUE,
                                        self.use_fast_variance, mask)}})

-----------------------------------------------------------------------------
(* The InstanceNorm system: one instance, called repeatedly *)

EpsilonIN == 1

\* the feature axes an instance is configured with: one axis, or axis 0 with
\* the last one
FeatureAxesIN == {{-1}, {0}, {1}, {2}, {-2}, {-3}, {0, -1}}

\* inputs of shape (BatchSize, NumFeatures) and (BatchSize, NumFeatures,
\* NumFeatures): every axis but the first has one entry per feature
InputsIN ==
  {Tabulate(<<BatchSize, NumFeatures>>, 0), Tabulate(<<BatchSize, NumFeatures>>, 4),
   Tabulate(<<BatchSize, NumFeatures, NumFeatures>>, 2)}

\* masks: none, or one of the input's shape
MasksIN(x) ==
  {None, Some([shape |-> x.shape, data |-> [i \in 1..Size(x) |-> i % 3 # 0] \o <<>>])}

InitIN ==
  /\ inn \in {InstanceNorm_init(NumFeatures, EpsilonIN, axes, fast,
                                Some(Vec([i \in 1..NumFeatures |-> i * ONE])),
                                Some(Vec([i \in 1..NumFeatures |-> (i - 1) * ONE]))) :
                axes \in FeatureAxesIN, fast \in BOOLEAN}
  /\ inn_ret = [status |-> "init", x |-> None, mask |-> None, stats |-> None, y |-> None]
  /\ bn = None /\ bn_ret = None /\ wn = None /\ wn_ret = None
  /\ sn = None /\ sn_ret = None /\ gn = None /\ gn_ret = None /\ cs = None
  /\ calls = 0
  /\ ca = None /\ nl = None

\* a call with an input for whose rank every configured axis is an index
INCall ==
  /\ calls < MaxCalls
  /\ \E x \in InputsIN :
       /\ \A a \in inn.feature_axes : -Rank(x) <= a /\ a < Rank(x)
       /\ \E mask \in MasksIN(x) :
            \E r \in {InstanceNorm_call(inn, x, mask)} :
               inn_ret' = [status |-> IF r.raised THEN "raised" ELSE "returned",
                           x |-> Some(x), mask |-> mask, stats |-> r.stats, y |-> r.y]
  /\ calls' = calls + 1
  /\ UNCHANGED <<bn, bn_ret, wn, wn_ret, sn, sn_ret, gn, gn_ret, inn, cs, ca, nl>>

NextIN == INCall
SpecIN == InitIN /\ [][NextIN]_vars

-----------------------------------------------------------------------------
(* _compute_stats as a function: arguments drawn, then applied *)

\* a tensor of a shape whose values are 3 and 3 + 1 / ONE in turn
NearConstant(shape) ==
  [shape |-> shape, data |-> [i \in 1..Prod(shape) |-> 3 * ONE + (i % 2)] \o <<>>]

\* the inputs of the devices of a call: one device (no axis_name), or a group
\* of two devices with an input each
InputsCS ==
  UNION {{<<Tabulate(shape, 0)>>, <<Tabulate(shape, 3)>>, <<NearConstant(shape)>>,
          <<Tabulate(shape, 0), Tabulate(shape, 3)>>,
          <<NearConstant(shape), Tabulate(shape, 5)>>} :
           shape \in {<<BatchSize + 1, NumFeatures>>, <<BatchSize, 2, NumFeatures>>}}

\* the axes to reduce over, negative indices included
AxesCS(rank) == {{0}, {-1}, {0, 1}, {}} \cup IF rank = 3 THEN {{1, 2}, {0, -2}} ELSE {}

\* masks: none, one of the input's shape, one with a flag per index of the
\* first axis (it selects whole rows), one with a flag per index of the last
MasksCS(shape) ==
  {None,
   Some([shape |-> shape, data |-> [i \in 1..Prod(shape) |-> i % 3 # 0] \o <<>>]),
   Some([shape |-> [k \in 1..Len(shape) |-> IF k = 1 THEN shape[1] ELSE 1],
         data |-> [i \in 1..shape[1] |-> i # 2] \o <<>>]),
   Some([shape |-> <<shape[Len(shape)]>>,
         data |-> [i \in 1..shape[Len(shape)] |-> i # 1] \o <<>>])}

\* _compute_stats(x, axes, ..., use_mean, use_fast_variance, mask) on one
\* device, or on every device of a group
compute_stats_of(a) ==
  IF Len(a.xs) = 1
  THEN compute_stats(a.xs[1], a.axes, a.use_mean, a.use_fast_variance, a.mask)
  ELSE compute_stats_distributed(a.xs, a.axes, a.use_mean, a.use_fast_variance, a.mask)

InitCS ==
  /\ \E xs \in InputsCS :
       \E axes \in AxesCS(Rank(xs[1])), mask \in MasksCS(xs[1].shape),
          use_mean \in BOOLEAN, use_fast_variance \in BOOLEAN :
          cs = [xs |-> xs, axes |-> axes, mask |-> mask, use_mean |-> use_mean,
                use_fast_variance |-> use_fast_variance, result |-> None]
  /\ bn = None /\ bn_ret = None /\ wn = None /\ wn_ret = None
  /\ sn = None /\ sn_ret = None /\ gn = None /\ gn_ret = None
  /\ inn = None /\ inn_ret = None
  /\ calls = 0
  /\ ca = None /\ nl = None

CSApply ==
  /\ IsNone(cs.result)
  /\ \E r \in {compute_stats_of(cs)} : cs' = [cs EXCEPT !.result = Some(r)]
  /\ calls' = calls + 1
  /\ UNCHANGED <<bn, bn_ret, wn, wn_ret, sn, sn_ret, gn, gn_ret, inn, inn_ret, ca, nl>>

NextCS == CSApply
SpecCS == InitCS /\ [][NextCS]_vars

-----------------------------------------------------------------------------
(* _canonicalize_axes as a tuple: the order of tuple({...})                 *)

\* The returned tuple lists a set in the order of the interpreter's hash
\* table.  A CPython set starts with 8 slots; an int hashes to itself and
\* goes to slot hash & mask; on a collision the next slot tried is
\* (5 * i + 1 + perturb) & mask, where perturb = hash >> 5 is 0 for the
\* keys met here (0 <= key < 32).  When five slots are filled the table is
\* rebuilt with 32 slots, in which keys below 32 never collide.
set_table(size) == [i \in 1..size |-> None]

RECURSIVE set_slot(_, _, _)
set_slot(table, i, key) ==
  IF IsNone(table[i + 1]) \/ table[i + 1] = Some(key) THEN i
  ELSE set_slot(table, (5 * i + 1) % Len(table), key)

set_used(table) == Cardinality({i \in 1..Len(table) : ~IsNone(table[i])})

set_insert(table, key) == [table EXCEPT ![set_slot(table, key % Len(table), key) + 1] = Some(key)]

RECURSIVE set_newsize(_, _)
set_newsize(size, minused) == IF size > minused THEN size ELSE set_newsize(2 * size, minused)

RECURSIVE set_reinsert(_, _, _)
set_reinsert(old, i, table) ==
  IF i > Len(old) THEN table
  ELSE set_reinsert(old, i + 1, IF IsNone(old[i]) THEN table ELSE set_insert(table, Val(old[i])))

\* set_add_key: insert, then grow once fill * 5 >= mask * 3
set_add(table, key) ==
  Only({IF set_used(t) * 5 >= (Len(t) - 1) * 3
        THEN set_reinsert(t, 1, set_table(set_newsize(8, 4 * set_used(t))))
        ELSE t : t \in {set_insert(table, key)}})

RECURSIVE set_of(_, _, _)
set_of(elems, i, table) ==
  IF i > Len(elems) THEN table ELSE set_of(elems, i + 1, set_add(table, elems[i]))

\* tuple(s): the filled slots in table order
RECURSIVE tuple_of(_, _)
tuple_of(table, i) ==
  IF i > Len(table) THEN <<>>
  ELSE (IF IsNone(table[i]) THEN <<>> ELSE <<Val(table[i])>>) \o tuple_of(table, i + 1)

\* axes is a bare int, [iterable |-> FALSE, int |-> a, items |-> <<>>], or an
\* iterable of ints, [iterable |-> TRUE, int |-> 0, items |-> <<a, ...>>]
IntAxis(a) == [iterable |-> FALSE, int |-> a, items |-> <<>>]

IterAxes(items) == [iterable |-> TRUE, int |-> 0, items |-> items]

\* if not isinstance(axes, tp.Iterable): axes = (axes,)
as_iterable(axes) == IF axes.iterable THEN axes.items ELSE <<axes.int>>

canonicalize_axes_tuple(rank, axes) ==
  LET it == as_iterable(axes)
  IN tuple_of(set_of([i \in 1..Len(it) |-> IF it[i] < 0 THEN rank + it[i] ELSE it[i]], 1, set_table(8)), 1)

MaxRank == 9

RangeSeq(n) == [i \in 1..n |-> i - 1]

\* a single int, every sequence of one or two axes, and the whole range
\* forwards and backwards
AxesCA(rank) ==
  {IntAxis(a) : a \in (-rank)..(rank - 1)}
    \cup {IterAxes(<<a>>) : a \in (-rank)..(rank - 1)}
    \cup {IterAxes(<<a, b>>) : a \in (-rank)..(rank - 1), b \in (-rank)..(rank - 1)}
    \cup {IterAxes(RangeSeq(rank)), IterAxes([i \in 1..rank |-> -i])}

InitCA ==
  /\ \E rank \in 1..MaxRank : \E axes \in AxesCA(rank) :
       ca = [rank |-> rank, axes |-> axes, result |-> None]
  /\ bn = None /\ bn_ret = None /\ wn = None /\ wn_ret = None
  /\ sn = None /\ sn_ret = None /\ gn = None /\ gn_ret = None
  /\ inn = None /\ inn_ret = None /\ cs = None /\ nl = None
  /\ calls = 0

CAApply ==
  /\ IsNone(ca.result)
  /\ \E r \in {canonicalize_axes_tuple(ca.rank, ca.axes)} : ca' = [ca EXCEPT !.result = Some(r)]
  /\ calls' = calls + 1
  /\ UNCHANGED <<bn, bn_ret, wn, wn_ret, sn, sn_ret, gn, gn_ret, inn, inn_ret, cs, nl>>

NextCA == CAApply
SpecCA == InitCA /\ [][NextCA]_vars

-----------------------------------------------------------------------------
(* RMSNorm *)

\* the instance right after __init__
RMSNorm_init(num_features, epsilon, reduction_axes, feature_axes, use_fast_variance, scale) ==
  [scale |-> scale,
   num_features |-> num_features,
   epsilon |-> epsilon,
   reduction_axes |-> reduction_axes,
   feature_axes |-> feature_axes,
   use_fast_variance |-> use_fast_variance]

\* RMSNorm.__call__(x, mask): the statistics computed and the value returned
RMSNorm_call(self, x, mask) ==
  Only({[stats |-> st,
         y |-> normalize(x, st.mean, st.var, self.scale, None, self.reduction_axes,
                         self.feature_axes, self.epsilon)] :
          st \in {compute_stats(x, self.reduction_axes, FALSE, self.use_fast_variance,
                                mask)}})

-----------------------------------------------------------------------------
(* The five statistics-normalizing layers: one instance, one call, and the  *)
(* axes the call hands to _compute_stats and to _normalize                  *)

EpsilonLN == 1
EpsilonRMS == 1

ScaleNL(n) == Some(Vec([i \in 1..n |-> i * ONE]))

BiasNL(n) == Some(Vec([i \in 1..n |-> (i - 1) * ONE]))

\* reduction axes of a LayerNorm / RMSNorm: the default -1 first
ReductionAxesNL == {{-1}, {-2}, {0}, {0, 1}}

\* the instances: default configurations included
LayersNL ==
  {[layer |-> "BatchNorm",
    self |-> BatchNorm_init(NumFeatures, Some(FALSE), axis, MomentumBN, EpsilonBN, TRUE,
                            ScaleNL(NumFeatures), BiasNL(NumFeatures))] : axis \in {-1, 0, 1}}
    \cup {[layer |-> "LayerNorm",
           self |-> LayerNorm_init(NumFeatures, EpsilonLN, red, {-1}, fast,
                                   ScaleNL(NumFeatures), BiasNL(NumFeatures))] :
            red \in ReductionAxesNL, fast \in BOOLEAN}
    \cup {[layer |-> "RMSNorm",
           self |-> RMSNorm_init(NumFeatures, EpsilonRMS, red, {-1}, fast, scale)] :
            red \in ReductionAxesNL, fast \in BOOLEAN, scale \in {None, ScaleNL(NumFeatures)}}
    \cup {[layer |-> "GroupNorm", self |-> r.self] :
            r \in {g \in {GroupNorm_init(NumChannels, Some(n), None, EpsilonGN, red, TRUE,
                                         ScaleNL(NumChannels), BiasNL(NumChannels)) :
                            n \in {1, 2, NumChannels}, red \in {None, Some({-1})}} :
                     ~g.raised}}
    \cup {[layer |-> "InstanceNorm",
           self |-> InstanceNorm_init(NumFeatures, EpsilonIN, axes, TRUE,
                                      ScaleNL(NumFeatures), BiasNL(NumFeatures))] :
            axes \in {{-1}, {1}}}

InputsNL(layer) == IF layer = "GroupNorm" THEN InputsGN ELSE InputsIN

InitNL ==
  /\ \E l \in LayersNL : \E x \in InputsNL(l.layer) : \E mask \in MasksIN(x) :
       nl = [layer |-> l.layer, self |-> l.self, x |-> x, mask |-> mask, result |-> None]
  /\ bn = None /\ bn_ret = None /\ wn = None /\ wn_ret = None
  /\ sn = None /\ sn_ret = None /\ gn = None /\ gn_ret = None
  /\ inn = None /\ inn_ret = None /\ cs = None /\ ca = None
  /\ calls = 0

\* what a call leaves behind: the canonicalized axes given to _compute_stats
\* (indices of the tensor it is given), the reduction and feature axes given
\* to _normalize (indices of x), the statistics and the returned value
TraceNL(stats_axes, reduction_axes, feature_axes, stats, y) ==
  [stats_axes |-> stats_axes, reduction_axes |-> reduction_axes,
   feature_axes |-> feature_axes, stats |-> stats, y |-> y]

ReturnNL(trace) ==
  /\ IsNone(nl.result)
  /\ nl' = [nl EXCEPT !.result = Some(trace)]
  /\ calls' = calls + 1
  /\ UNCHANGED <<bn, bn_ret, wn, wn_ret, sn, sn_ret, gn, gn_ret, inn, inn_ret, cs, ca>>

\* BatchNorm.__call__(x, mask=mask) with use_running_average = False
NLBatchNorm ==
  /\ nl.layer = "BatchNorm"
  /\ \E r \in {BatchNorm_call(nl.self, nl.x, None, nl.mask)} :
       ReturnNL(TraceNL(BN_reduction_axes(nl.self, nl.x), BN_reduction_axes(nl.self, nl.x),
                        BN_feature_axes(nl.self, nl.x), None, r.y))

\* LayerNorm.__call__(x, mask=mask)
NLLayerNorm ==
  /\ nl.layer = "LayerNorm"
  /\ \E y \in {LayerNorm_call(nl.self, nl.x, nl.mask)} :
       ReturnNL(TraceNL(canonicalize_axes(Rank(nl.x), nl.self.reduction_axes),
                        canonicalize_axes(Rank(nl.x), nl.self.reduction_axes),
                        canonicalize_axes(Rank(nl.x), nl.self.feature_axes), None, Some(y)))

\* RMSNorm.__call__(x, mask)
NLRMSNorm ==
  /\ nl.layer = "RMSNorm"
  /\ \E r \in {RMSNorm_call(nl.self, nl.x, nl.mask)} :
       ReturnNL(TraceNL(canonicalize_axes(Rank(nl.x), nl.self.reduction_axes),
                        canonicalize_axes(Rank(nl.x), nl.self.reduction_axes),
                        canonicalize_axes(Rank(nl.x), nl.self.feature_axes),
                        Some(r.stats), Some(r.y)))

\* GroupNorm.__call__(x, mask=mask): the statistics are taken on x reshaped
\* to (..., num_groups, group_size), of rank x.ndim + 1
NLGroupNorm ==
  /\ nl.layer = "GroupNorm"
  /\ \E r \in {GroupNorm_call(nl.self, nl.x, nl.mask)} :
       ReturnNL(TraceNL(canonicalize_axes(Rank(nl.x) + 1,
                                          GN_leading_axes(GN_reduction_axes(nl.self, nl.x)) \cup {-1}),
                        GN_leading_axes(GN_reduction_axes(nl.self, nl.x)),
                        canonicalize_axes(Rank(nl.x), {nl.self.feature_axis}), None, r.y))

\* InstanceNorm.__call__(x, mask=mask)
NLInstanceNorm ==
  /\ nl.layer = "InstanceNorm"
  /\ \E r \in {InstanceNorm_call(nl.self, nl.x, nl.mask)} :
       ReturnNL(TraceNL(IN_reduction_axes(Rank(nl.x), nl.self.feature_axes),
                        IN_reduction_axes(Rank(nl.x), nl.self.feature_axes),
                        canonicalize_axes(Rank(nl.x), nl.self.feature_axes), r.stats, r.y))

NextNL == NLBatchNorm \/ NLLayerNorm \/ NLRMSNorm \/ NLGroupNorm \/ NLInstanceNorm
SpecNL == InitNL /\ [][NextNL]_vars

-----------------------------------------------------------------------------
(* BatchNorm: properties *)

\* the mode a call must run in: the per-call argument when it is not None,
\* else the attribute; None when both are None
ExpectedMode(attribute, arg) == IF ~IsNone(arg) THEN arg ELSE attribute

\* every axis of x but the feature axis
NonFeatureAxes(self, x) ==
  {a \in 0..(Rank(x) - 1) :
     a # (IF self.axis < 0 THEN Rank(x) + self.axis ELSE self.axis)}

\* the statistics of the input of a call over its non-feature axes
BatchStatsOf(self, x, mask) ==
  compute_stats(x, NonFeatureAxes(self, x), TRUE, self.use_fast_variance, mask)

\* momentum * old + (1 - momentum) * new, element by element
Blend(momentum, old, new) ==
  [shape |-> old.shape,
   data  |-> [i \in 1..Size(old) |->
                FAdd(FMul(momentum, old.data[i]),
                     FMul(FSub(ONE, momentum), new.data[i]))]]

NoNaN(t) == \A i \in 1..Size(t) : t.data[i] # NaN

\* what the call returns when (mean, var) normalize its input
NormalizedWith(self, x, mean, var) ==
  Some(normalize(x, mean, var, self.scale, self.bias,
                 NonFeatureAxes(self, x), {self.axis}, self.epsilon))

\* a step that is a BatchNorm call in the given mode
BNStepInMode(mode) ==
  /\ calls' = calls + 1
  /\ ExpectedMode(bn.use_running_average, bn_ret'.use_running_average) = mode

\* C1: a call in non-running mode stores momentum * old + (1 - momentum) *
\* batch statistic in the running mean and in the running var, the batch
\* statistics being those of the call's input over all non-feature axes.
C1_RunningStatsBlended ==
  [][BNStepInMode(Some(FALSE)) =>
       \E st \in {BatchStatsOf(bn, bn_ret'.x, bn_ret'.mask)} :
         /\ bn_ret'.status = "returned"
         /\ bn'.mean = Blend(bn.momentum, bn.mean, st.mean)
         /\ bn'.var  = Blend(bn.momentum, bn.var, st.var)]_vars

\* a second non-running call: the old values it blends are not the initial ones
C1_Witness ==
  /\ calls = 2
  /\ bn_ret.status = "returned"
  /\ ExpectedMode(bn.use_running_average, bn_ret.use_running_average) = Some(FALSE)
  /\ NoNaN(bn.mean) /\ NoNaN(bn.var)
  /\ bn.mean # Blend(bn.momentum, Full(<<NumFeatures>>, 0),
                     BatchStatsOf(bn, bn_ret.x, bn_ret.mask).mean)
  /\ bn.var # Blend(bn.momentum, Full(<<NumFeatures>>, ONE),
                    BatchStatsOf(bn, bn_ret.x, bn_ret.mask).var)

\* C6: a call in running-average mode leaves the stored mean and var as they
\* were and returns the input normalized with exactly those stored values.
C6_RunningModeFrame ==
  [][BNStepInMode(Some(TRUE)) =>
       /\ bn_ret'.status = "returned"
       /\ bn' = bn
       /\ bn_ret'.y = NormalizedWith(bn, bn_ret'.x, bn.mean, bn.var)]_vars

\* a running-mode call with a mask, after an update moved the stored values,
\* whose result is not what the batch statistics would give
C6_Witness ==
  /\ bn_ret.status = "returned"
  /\ ExpectedMode(bn.use_running_average, bn_ret.use_running_average) = Some(TRUE)
  /\ ~IsNone(bn_ret.mask)
  /\ bn.mean # Full(<<NumFeatures>>, 0)
  /\ NoNaN(bn.mean) /\ NoNaN(bn.var)
  /\ \E st \in {BatchStatsOf(bn, bn_ret.x, bn_ret.mask)} :
       bn_ret.y # NormalizedWith(bn, bn_ret.x, st.mean, st.var)

\* C7: the per-call use_running_average decides the mode when it is not None,
\* the attribute when it is None; with both None the call raises and the
\* stored mean and var are unchanged.
C7_ModeResolution ==
  [][calls' = calls + 1 =>
       \E mode \in {ExpectedMode(bn.use_running_average, bn_ret'.use_running_average)} :
         IF IsNone(mode)
         THEN /\ bn_ret'.status = "raised"
              /\ bn'.mean = bn.mean /\ bn'.var = bn.var
         ELSE /\ bn_ret'.status = "returned"
              /\ bn_ret'.mode = mode
              /\ Val(mode) => bn' = bn
              /\ ~Val(mode) =>
                   bn'.mean = Blend(bn.momentum, bn.mean,
                                    BatchStatsOf(bn, bn_ret'.x, bn_ret'.mask).mean)]_vars

\* per-call False overrode the attribute True: the stored mean moved
C7_Witness ==
  /\ bn_ret.status = "returned"
  /\ bn.use_running_average = Some(TRUE)
  /\ bn_ret.use_running_average = Some(FALSE)
  /\ bn.mean # Full(<<NumFeatures>>, 0)

\* both None: the call raised
C7_WitnessRaised ==
  /\ bn_ret.status = "raised"
  /\ IsNone(bn.use_running_average) /\ IsNone(bn_ret.use_running_average)

\* C8: a call in non-running mode returns the input normalized with the mean
\* and var just computed from that input.
C8_NormalizedWithBatchStats ==
  [][BNStepInMode(Some(FALSE)) =>
       \E st \in {BatchStatsOf(bn, bn_ret'.x, bn_ret'.mask)} :
         bn_ret'.y = NormalizedWith(bn, bn_ret'.x, st.mean, st.var)]_vars

\* the result differs from what the values stored by the call would give
C8_Witness ==
  /\ bn_ret.status = "returned"
  /\ ExpectedMode(bn.use_running_average, bn_ret.use_running_average) = Some(FALSE)
  /\ NoNaN(bn.mean) /\ NoNaN(bn.var)
  /\ bn_ret.y # NormalizedWith(bn, bn_ret.x, bn.mean, bn.var)

-----------------------------------------------------------------------------
(* WeightNorm: properties *)

WNCallStep == wn_ret'.status = "returned" /\ calls' = calls + 1

\* the paths of a layer that match the wrapper's variable_filters
TargetsWN(self, layer) ==
  {p \in DOMAIN layer :
     IsNone(self.variable_filters)
       \/ \E f \in Val(self.variable_filters) : \E i \in 1..Len(p) : p[i] = f}

NonFeatureAxesWN(self, v) ==
  IF IsNone(self.feature_axes) THEN 0..(Rank(v) - 1)
  ELSE {a \in 0..(Rank(v) - 1) :
          \A f \in Val(self.feature_axes) : a # f /\ a # Rank(v) + f}

\* the shape of a scale for v, one entry per feature axis
ScaleShapeWN(self, v) ==
  LET pos == KeptPos(Rank(v), NonFeatureAxesWN(self, v))
  IN [n \in 1..Len(pos) |-> v.shape[pos[n]]]

\* the value at path p of `layer`, L2-normalized over its non-feature axes
\* and multiplied by the scale stored for p, or by a new one if none is
WeightNormalized(self, layer, p) ==
  LET v == layer[p]
      red == NonFeatureAxesWN(self, v)
      sp == Append(p, "scale")
      scale == IF sp \in DOMAIN layer THEN layer[sp]
               ELSE Full(ScaleShapeWN(self, v), self.scale_init)
      bshape == [k \in 1..Rank(v) |-> IF (k - 1) \in red THEN 1 ELSE v.shape[k]]
      v_bar == l2_normalize(v, Some(red), self.epsilon)
  IN IF self.use_scale THEN BinOp("mul", v_bar, Reshape(scale, bshape)) ELSE v_bar

\* C4: with use_scale, a call creates the scale of a target path (filled by
\* scale_init, one RNG draw) exactly when none is stored under
\* path + ('scale',); when one is stored, as it is on every call after the
\* first, the call uses the stored scale, draws nothing for it, and no
\* stored entry disappears.  The RNG count advances by the number of scales
\* created.
C4_ScaleCreatedOnce ==
  [][WNCallStep /\ Val(wn).use_scale =>
       LET self == Val(wn)
           before == self.layer_instance
           after == Val(wn').layer_instance
           targets == TargetsWN(self, before)
           sp(p) == Append(p, "scale")
           fresh == {p \in targets : sp(p) \notin DOMAIN before}
       IN /\ \A p \in targets \ fresh :
               /\ ~wn_ret'.log[p].drew
               /\ wn_ret'.log[p].scale = Some(before[sp(p)])
          /\ \A p \in fresh :
               /\ wn_ret'.log[p].drew
               /\ sp(p) \in DOMAIN after
               /\ after[sp(p)] = Full(ScaleShapeWN(self, before[p]), self.scale_init)
          /\ DOMAIN before \subseteq DOMAIN after
          /\ Val(wn').rngs = self.rngs + Cardinality(fresh)
  ]_vars

\* a second call that found the kernel's scale stored by the first and drew
\* nothing for it
C4_Witness ==
  /\ wn # None /\ wn_ret.status = "returned" /\ calls = 2
  /\ Val(wn).use_scale
  /\ <<"kernel", "scale">> \in DOMAIN wn_ret.before
  /\ ~wn_ret.log[<<"kernel">>].drew
  /\ wn_ret.log[<<"kernel">>].scale = Some(wn_ret.before[<<"kernel", "scale">>])

\* C5: after a call, exactly the entries of the wrapped layer whose path
\* matches variable_filters hold the transformed value (L2-normalized over
\* the non-feature axes, times the scale when use_scale); every other entry
\* holds its pre-call value.
C5_OnlyFilteredRewritten ==
  [][WNCallStep =>
       LET self == Val(wn)
           before == self.layer_instance
           after == Val(wn').layer_instance
           targets == TargetsWN(self, before)
       IN \A p \in DOMAIN before :
            /\ p \in DOMAIN after
            /\ after[p] = IF p \in targets THEN WeightNormalized(self, before, p)
                          ELSE before[p]
  ]_vars

\* a call with the default filter: the kernel was rewritten, the bias kept
C5_Witness ==
  /\ wn # None /\ wn_ret.status = "returned"
  /\ Val(wn).variable_filters = Some({"kernel"})
  /\ Val(wn).layer_instance[<<"kernel">>] # wn_ret.before[<<"kernel">>]
  /\ Val(wn).layer_instance[<<"kernel">>]
       = WeightNormalized(Val(wn), wn_ret.before, <<"kernel">>)
  /\ Val(wn).layer_instance[<<"bias">>] = wn_ret.before[<<"bias">>]

-----------------------------------------------------------------------------
(* SpectralNorm: properties *)

SNCallStep == sn_ret'.status \in {"returned", "raised"} /\ calls' = calls + 1
SNReturnStep == sn_ret'.status = "returned" /\ calls' = calls + 1

\* the entries a returning call normalizes: rank >= 2, with n_steps >= 1
EligibleSN(self, layer) ==
  {p \in DOMAIN layer : Rank(layer[p]) >= 2 /\ self.n_steps >= 1}

\* the keys u and sigma of the entry at path p are stored under
UKey(self, p) == <<self.collection_name \o "/" \o Join(p) \o "/u">>
SigmaKey(self, p) == <<self.collection_name \o "/" \o Join(p) \o "/sigma">>

\* the entries of the wrapped layer that are not its own parameters: the
\* stored u and sigma
StoredSN(layer) == DOMAIN layer \ {<<"kernel">>, <<"bias">>}

\* C2: a returning call with update_stats=True stores the u and sigma it
\* computed for each eligible entry under that entry's path; a call that
\* finds a u stored for an entry starts power iteration from it and draws
\* no random u for it, so the RNG count advances only by the number of
\* eligible entries without a stored u.
C2_PowerIterationStatePersists ==
  [][SNReturnStep =>
       LET self == Val(sn)
           before == self.layer_instance
           after == Val(sn').layer_instance
           eligible == EligibleSN(self, before)
           fresh == {p \in eligible : UKey(self, p) \notin DOMAIN before}
       IN /\ sn_ret'.update_stats =>
               \A p \in eligible :
                 /\ UKey(self, p) \in DOMAIN after
                 /\ SigmaKey(self, p) \in DOMAIN after
                 /\ after[UKey(self, p)] = sn_ret'.log[p].u
                 /\ after[SigmaKey(self, p)] = Scalar(sn_ret'.log[p].sigma)
          /\ \A p \in eligible \ fresh :
               /\ ~sn_ret'.log[p].drew
               /\ sn_ret'.log[p].u0 = before[UKey(self, p)]
          /\ \A p \in fresh : sn_ret'.log[p].drew
          /\ Val(sn').rngs = self.rngs + Cardinality(fresh)
  ]_vars

\* the second of two update_stats=True calls: it started from the u the first
\* stored, drew nothing for the kernel, and stored a further refined u
C2_Witness ==
  /\ sn # None /\ sn_ret.status = "returned" /\ calls = 2
  /\ sn_ret.update_stats
  /\ sn_ret.previous # None /\ Val(sn_ret.previous).update_stats
  /\ UKey(Val(sn), <<"kernel">>) \in DOMAIN sn_ret.before
  /\ ~sn_ret.log[<<"kernel">>].drew
  /\ sn_ret.log[<<"kernel">>].u0 = sn_ret.before[UKey(Val(sn), <<"kernel">>)]
  /\ Val(sn).layer_instance[UKey(Val(sn), <<"kernel">>)] = sn_ret.log[<<"kernel">>].u
  /\ sn_ret.log[<<"kernel">>].u # sn_ret.log[<<"kernel">>].u0

\* C3: a call with update_stats=False leaves the stored u and sigma entries
\* as they were: the same keys, each with the same value.
C3_EvalLeavesStoredUntouched ==
  [][SNCallStep /\ ~sn_ret'.update_stats =>
       LET before == Val(sn).layer_instance
           after == Val(sn').layer_instance
       IN /\ StoredSN(after) = StoredSN(before)
          /\ \A k \in StoredSN(before) : after[k] = before[k]
  ]_vars

\* C9: two consecutive calls with update_stats=False and the same x return
\* the same output.
C9_EvalDeterministic ==
  [][/\ SNReturnStep
     /\ sn_ret.status = "returned"
     /\ ~sn_ret.update_stats /\ ~sn_ret'.update_stats
     /\ sn_ret'.x = sn_ret.x
     => sn_ret'.y = sn_ret.y
  ]_vars

\* the entries of a layer of rank > 2
NonMatricesSN(layer) == {p \in DOMAIN layer : Rank(layer[p]) > 2}

\* t as a (prod(leading dims), last dim) matrix
Flattened(t) ==
  [shape |-> <<Prod(SubSeq(t.shape, 1, Rank(t) - 1)), t.shape[Rank(t)]>>,
   data |-> t.data]

\* a returning call flattened, normalized and wrote back with their shape
\* the entries of P
FlattenedAndNormalized(P) ==
  \A p \in P :
    LET t == Val(sn).layer_instance[p]
        log == sn_ret'.log[p]
        d == IF log.sigma # 0 THEN log.sigma ELSE ONE
    IN /\ log.guard = "normalize"
       /\ log.matrix = Flattened(t)
       /\ Val(sn').layer_instance[p] =
            [shape |-> t.shape,
             data |-> [i \in 1..Size(t) |-> FDiv(log.matrix.data[i], d)]]

\* C10 as stated: with error_on_non_matrix every call on a layer with an
\* entry of rank > 2 fails, whatever n_steps is; without it such an entry is
\* flattened to (prod(leading dims), last dim), normalized and written back
\* with its shape.
C10_NonMatrixAsStated ==
  [][SNCallStep /\ NonMatricesSN(Val(sn).layer_instance) # {} =>
       IF Val(sn).error_on_non_matrix
       THEN sn_ret'.status = "raised"
       ELSE /\ sn_ret'.status = "returned"
            /\ FlattenedAndNormalized(NonMatricesSN(Val(sn).layer_instance))
  ]_vars

\* C10: with n_steps < 1 every entry is skipped: the call returns and the
\* layer is as before, error_on_non_matrix or not.  With n_steps >= 1 and
\* error_on_non_matrix a call on a layer with an entry of rank > 2 fails and
\* the layer is as before; with n_steps >= 1 and no error_on_non_matrix such
\* an entry is flattened to (prod(leading dims), last dim), normalized and
\* written back with its shape.
C10_NonMatrix ==
  [][SNCallStep /\ NonMatricesSN(Val(sn).layer_instance) # {} =>
       IF Val(sn).n_steps < 1
       THEN /\ sn_ret'.status = "returned"
            /\ Val(sn').layer_instance = Val(sn).layer_instance
       ELSE IF Val(sn).error_on_non_matrix
       THEN /\ sn_ret'.status = "raised"
            /\ Val(sn').layer_instance = Val(sn).layer_instance
       ELSE /\ sn_ret'.status = "returned"
            /\ FlattenedAndNormalized(NonMatricesSN(Val(sn).layer_instance))
  ]_vars

\* a call with error_on_non_matrix and n_steps < 1 on a rank-3 kernel that
\* returned
C10_Witness ==
  /\ sn # None /\ sn_ret.status = "returned"
  /\ Val(sn).error_on_non_matrix /\ Val(sn).n_steps < 1
  /\ Rank(sn_ret.before[<<"kernel">>]) > 2

\* a call with error_on_non_matrix and n_steps >= 1 on a rank-3 kernel that
\* failed
C10_WitnessRaised ==
  /\ sn # None /\ sn_ret.status = "raised"
  /\ Val(sn).error_on_non_matrix /\ Val(sn).n_steps >= 1
  /\ Rank(sn_ret.before[<<"kernel">>]) > 2

\* a call without error_on_non_matrix that normalized a rank-3 kernel
C10_WitnessFlattened ==
  /\ sn # None /\ sn_ret.status = "returned"
  /\ ~Val(sn).error_on_non_matrix
  /\ Rank(sn_ret.before[<<"kernel">>]) > 2
  /\ sn_ret.log[<<"kernel">>].guard = "normalize"
  /\ Rank(sn_ret.log[<<"kernel">>].matrix) = 2
  /\ Val(sn).layer_instance[<<"kernel">>] # sn_ret.before[<<"kernel">>]
  /\ Val(sn).layer_instance[<<"kernel">>].shape = sn_ret.before[<<"kernel">>].shape

-----------------------------------------------------------------------------
(* GroupNorm: properties *)

\* d is a divisor of n
Divides(d, n) == d > 0 /\ n % d = 0

\* the construction made so far has failed
ConstructionFailedGN == gn_ret.status = "init_raised" /\ IsNone(gn)

\* C11: a GroupNorm construction fails when both num_groups and group_size
\* are given (the default num_groups = 32 with a group_size included), when
\* neither is given, and when the one given does not divide num_features; it
\* succeeds when exactly one is given and it divides num_features.
C11_ConstructionErrors ==
  ~IsNone(gn_ret.args) =>
    LET a == Val(gn_ret.args)
        both == ~IsNone(a.num_groups) /\ ~IsNone(a.group_size)
        neither == IsNone(a.num_groups) /\ IsNone(a.group_size)
        given == IF IsNone(a.num_groups) THEN a.group_size ELSE a.num_groups
    IN /\ both => ConstructionFailedGN
       /\ neither => ConstructionFailedGN
       /\ (~both /\ ~neither /\ ~Divides(Val(given), NumChannels)) => ConstructionFailedGN
       /\ (~both /\ ~neither /\ Divides(Val(given), NumChannels)) =>
            /\ ~IsNone(gn)
            /\ gn_ret.status # "init_raised"
            /\ Val(gn).num_groups * Val(gn).group_size = NumChannels
            /\ Val(given) = IF IsNone(a.num_groups) THEN Val(gn).group_size
                            ELSE Val(gn).num_groups

\* a construction that passes only a group_size that divides num_features,
\* next to the default num_groups, and fails
C11_Witness ==
  /\ ConstructionFailedGN
  /\ Val(gn_ret.args).num_groups = Some(DefaultNumGroups)
  /\ ~IsNone(Val(gn_ret.args).group_size)
  /\ Divides(Val(Val(gn_ret.args).group_size), NumChannels)

\* a construction with a group_size alone that succeeds
C11_WitnessConstructed ==
  /\ gn_ret.status = "constructed"
  /\ IsNone(Val(gn_ret.args).num_groups)
  /\ Val(gn).group_size = 2

\* a construction with a num_groups alone that does not divide num_features
C11_WitnessNotDividing ==
  /\ ConstructionFailedGN
  /\ IsNone(Val(gn_ret.args).group_size)
  /\ Val(gn_ret.args).num_groups = Some(3)

-----------------------------------------------------------------------------
(* InstanceNorm: properties *)

\* the configured feature axes name axis 0 of an input of `rank`, as 0 or as
\* the negative index -rank
NamesBatchAxis(feature_axes, rank) == 0 \in feature_axes \/ (-rank) \in feature_axes

\* C12: a call of InstanceNorm raises, with no statistic computed, whenever
\* the configured feature axes name axis 0 of the input (as 0 or as -rank),
\* and returns when they do not.
C12_BatchAxisRejected ==
  [][\A rank \in {Rank(Val(inn_ret'.x))} :
       /\ NamesBatchAxis(inn.feature_axes, rank) =>
            /\ inn_ret'.status = "raised"
            /\ IsNone(inn_ret'.stats) /\ IsNone(inn_ret'.y)
       /\ ~NamesBatchAxis(inn.feature_axes, rank) =>
            /\ inn_ret'.status = "returned"
            /\ ~IsNone(inn_ret'.y)
            /\ Val(inn_ret'.y).shape = Val(inn_ret'.x).shape]_vars

\* a call that raised because the feature axis -rank is axis 0
C12_Witness ==
  /\ inn_ret.status = "raised"
  /\ inn.feature_axes = {-3}
  /\ Rank(Val(inn_ret.x)) = 3
  /\ IsNone(inn_ret.stats)

\* a call that returned, with feature axis 1 of a rank-3 input
C12_WitnessReturned ==
  /\ inn_ret.status = "returned"
  /\ inn.feature_axes = {-2}
  /\ Rank(Val(inn_ret.x)) = 3
  /\ NoNaN(Val(inn_ret.y))

-----------------------------------------------------------------------------
(* SpectralNorm: skipped entries and the zero sigma *)

\* the wrapped layer's own parameters (its stored u and sigma entries left out)
ParamsSN(layer) == DOMAIN layer \ StoredSN(layer)

\* the entries of the wrapped layer the skip test of a call lets through
NotSkippedSN(self, layer) ==
  {p \in DOMAIN layer : ~(Rank(layer[p]) <= 1 \/ self.n_steps < 1)}

\* key k is in neither or in both layers, and with the same value
SameEntry(before, after, k) ==
  /\ (k \in DOMAIN after) = (k \in DOMAIN before)
  /\ k \in DOMAIN before => after[k] = before[k]

\* C13: in a SpectralNorm call every parameter of rank <= 1, and every
\* parameter when n_steps < 1, is skipped: the value written back is its
\* value before the call, no u or sigma entry of it is created or changed,
\* and no RNG key is drawn for it (the keys drawn are those of the entries
\* that are not skipped and have no stored u).
C13_SkippedUntouched ==
  [][SNReturnStep =>
       LET self == Val(sn)
           before == self.layer_instance
           after == Val(sn').layer_instance
       IN /\ \A p \in ParamsSN(before) \ NotSkippedSN(self, before) :
               /\ sn_ret'.log[p].guard = "skip"
               /\ after[p] = before[p]
               /\ SameEntry(before, after, UKey(self, p))
               /\ SameEntry(before, after, SigmaKey(self, p))
          /\ Val(sn').rngs - self.rngs =
               Cardinality({p \in NotSkippedSN(self, before) :
                              UKey(self, p) \notin DOMAIN before})
          /\ NotSkippedSN(self, before) = {} => after = before /\ Val(sn').rngs = self.rngs
  ]_vars

\* a returned call of an instance with n_steps = 0 and a u and sigma stored
\* for the kernel: the kernel and both entries are as before, no key drawn
C13_Witness ==
  /\ sn # None /\ sn_ret.status = "returned"
  /\ Val(sn).n_steps = 0
  /\ sn_ret.update_stats
  /\ UKey(Val(sn), <<"kernel">>) \in DOMAIN sn_ret.before
  /\ Val(sn).layer_instance = sn_ret.before
  /\ Val(sn).rngs = 0

\* a returned call that normalized the kernel and skipped the bias
C13_WitnessBias ==
  /\ sn # None /\ sn_ret.status = "returned"
  /\ Val(sn).n_steps >= 1
  /\ sn_ret.log[<<"bias">>].guard = "skip"
  /\ sn_ret.log[<<"kernel">>].guard = "normalize"
  /\ Val(sn).layer_instance[<<"bias">>] = sn_ret.before[<<"bias">>]
  /\ Val(sn).layer_instance[<<"kernel">>] # sn_ret.before[<<"kernel">>]
  /\ Val(sn).rngs = 1

\* C14: when the sigma computed for a parameter is zero the parameter is
\* divided by 1, so the value written back is the parameter's value before
\* the call; when sigma is not zero the value written back is W / sigma.
C14_ZeroSigmaGuard ==
  [][SNReturnStep =>
       LET self == Val(sn)
           before == self.layer_instance
           after == Val(sn').layer_instance
       IN \A p \in ParamsSN(before) \cap NotSkippedSN(self, before) :
            \A sigma \in {sn_ret'.log[p].sigma} :
              /\ sigma = 0 => after[p] = before[p]
              /\ sigma # 0 =>
                   /\ after[p].shape = before[p].shape
                   /\ \A i \in 1..Size(before[p]) :
                        after[p].data[i] = FDiv(before[p].data[i], sigma)
              /\ NoNaN(after[p])
  ]_vars

\* a returned call whose sigma for a non-zero kernel was zero
C14_Witness ==
  /\ sn # None /\ sn_ret.status = "returned"
  /\ Val(sn).n_steps >= 1
  /\ sn_ret.log[<<"kernel">>].guard = "normalize"
  /\ sn_ret.log[<<"kernel">>].sigma = 0
  /\ \E i \in 1..Size(sn_ret.before[<<"kernel">>]) : sn_ret.before[<<"kernel">>].data[i] # 0
  /\ Val(sn).layer_instance[<<"kernel">>] = sn_ret.before[<<"kernel">>]

\* a returned call whose sigma was not zero and changed the kernel
C14_WitnessNonZero ==
  /\ sn # None /\ sn_ret.status = "returned"
  /\ sn_ret.log[<<"kernel">>].guard = "normalize"
  /\ sn_ret.log[<<"kernel">>].sigma \notin {0, ONE}
  /\ Val(sn).layer_instance[<<"kernel">>] # sn_ret.before[<<"kernel">>]

-----------------------------------------------------------------------------
(* BatchNorm: how far a non-running call moves the stored statistics *)

\* every element of a stored statistic that differs from the batch statistic
\* was changed by the call
StrictlyChanged(old, new, batch) ==
  \A i \in 1..Size(old) :
    (batch.data[i] # NaN /\ old.data[i] # NaN /\ old.data[i] # batch.data[i])
      => new.data[i] # old.data[i]

\* up to the rounding of the two products of the blend (half a unit each):
\* the gap is momentum times the gap before, within one unit, and the element
\* changes when (1 - momentum) * gap exceeds one unit
MovedWithinRounding(momentum, old, new, batch) ==
  \A i \in 1..Size(old) :
    (batch.data[i] # NaN /\ old.data[i] # NaN) =>
      /\ (ONE - momentum) * Abs(old.data[i] - batch.data[i]) > ONE
           => new.data[i] # old.data[i]
      /\ Abs(ONE * (new.data[i] - batch.data[i])
               - momentum * (old.data[i] - batch.data[i])) <= ONE
      /\ Abs(new.data[i] - batch.data[i]) <= Abs(old.data[i] - batch.data[i])

C15_WitnessAbsorbed ==
  /\ calls = 1
  /\ bn_ret.status = "returned"
  /\ ExpectedMode(bn.use_running_average, bn_ret.use_running_average) = Some(FALSE)
  /\ \E i \in 1..NumFeatures :
       /\ BatchStatsOf(bn, bn_ret.x, bn_ret.mask).var.data[i] = ONE + 1
       /\ bn.var.data[i] = ONE

-----------------------------------------------------------------------------
(* _compute_stats: properties *)

\* the flat indices of the positions of slice j (of the reduction of a tensor
\* of `shape` over `axes`) that the mask selects
SlicePositions(shape, axes, mask, j) ==
  LET kp == KeptPos(Len(shape), canonicalize_axes(Len(shape), axes))
      outShape == [n \in 1..Len(kp) |-> shape[kp[n]]]
  IN {i \in 0..(Prod(shape) - 1) :
        /\ LET c == Coords(i, shape)
           IN Flat([n \in 1..Len(kp) |-> c[kp[n]]], outShape) = j
        /\ (IsNone(mask) \/ BroadcastAt(Val(mask), shape, i))}

\* the number of slices of that reduction
SliceCount(shape, axes) ==
  LET kp == KeptPos(Len(shape), canonicalize_axes(Len(shape), axes))
  IN Prod([n \in 1..Len(kp) |-> shape[kp[n]]])

\* the mask selects at least one position in every slice
EverySliceSelected(shape, axes, mask) ==
  \A j \in 0..(SliceCount(shape, axes) - 1) : SlicePositions(shape, axes, mask, j) # {}

\* the arguments applied, and their result
Applied == ~IsNone(cs.result)

\* E[|x|^2] - |E[x]|^2 of one device's input before it is clipped
UnclippedFastVar(x, axes, mask) ==
  BinOp("sub", mean_where(abs_sq(x), canonicalize_axes(Rank(x), axes), mask),
               abs_sq(mean_where(x, canonicalize_axes(Rank(x), axes), mask)))

\* C16: the variance _compute_stats returns is >= 0 in every element, for
\* every input, axis set and mask that selects at least one position per
\* slice, with the fast variance, the two-pass variance and use_mean=False.
C16_VarianceNonNegative ==
  (Applied /\ EverySliceSelected(cs.xs[1].shape, cs.axes, cs.mask)) =>
     \A i \in 1..Size(Val(cs.result).var) :
       /\ Val(cs.result).var.data[i] # NaN
       /\ Val(cs.result).var.data[i] >= 0

\* a fast variance whose E[|x|^2] - |E[x]|^2 came out negative and was clipped
C16_Witness ==
  /\ Applied /\ Len(cs.xs) = 1
  /\ cs.use_mean /\ cs.use_fast_variance
  /\ EverySliceSelected(cs.xs[1].shape, cs.axes, cs.mask)
  /\ \E i \in 1..Size(Val(cs.result).var) :
       /\ UnclippedFastVar(cs.xs[1], cs.axes, cs.mask).data[i] < 0
       /\ Val(cs.result).var.data[i] = 0

\* a two-pass variance and a use_mean=False variance, both positive
C16_WitnessTwoPass ==
  /\ Applied /\ cs.use_mean /\ ~cs.use_fast_variance /\ ~IsNone(cs.mask)
  /\ EverySliceSelected(cs.xs[1].shape, cs.axes, cs.mask)
  /\ \A i \in 1..Size(Val(cs.result).var) : Val(cs.result).var.data[i] > 0
C16_WitnessNoMean ==
  /\ Applied /\ ~cs.use_mean /\ ~IsNone(cs.mask)
  /\ EverySliceSelected(cs.xs[1].shape, cs.axes, cs.mask)
  /\ \A i \in 1..Size(Val(cs.result).var) : Val(cs.result).var.data[i] > 0

\* the greatest |value| among the inputs of the devices
MaxAbs(xs) ==
  LET all == {Abs(xs[d].data[i]) : d \in 1..Len(xs), i \in 1..Size(xs[1])}
  IN CHOOSE m \in all : \A v \in all : v <= m

\* how far apart rounding can bring the two variances, in units of 1 / ONE:
\* every product, every mean and the pmean round by half a unit at most, and
\* the rounding of the mean enters |E[x]|^2 multiplied by 2 |E[x]|
RoundingBound(xs) ==
  IF Len(xs) = 1 THEN 4 + MaxAbs(xs) \div ONE ELSE 5 + (2 * MaxAbs(xs)) \div ONE

\* the same arguments with the other variance computation
OtherVariance(a) ==
  compute_stats_of([a EXCEPT !.use_fast_variance = ~a.use_fast_variance])

\* C17: for every input, axis set and mask, use_fast_variance=True and
\* use_fast_variance=False return the same mean and, up to the rounding of the
\* arithmetic, the same variance, on one device and across a device group.
C17_FastEqualsTwoPass ==
  Applied =>
    \E other \in {OtherVariance(cs)} :
      /\ Val(cs.result).mean = other.mean
      /\ Val(cs.result).var.shape = other.var.shape
      /\ \A i \in 1..Size(other.var) :
           \/ Val(cs.result).var.data[i] = NaN /\ other.var.data[i] = NaN
           \/ /\ Val(cs.result).var.data[i] # NaN /\ other.var.data[i] # NaN
              /\ Abs(Val(cs.result).var.data[i] - other.var.data[i]) <= RoundingBound(cs.xs)

\* a masked fast variance across two devices, of at least 1, that the
\* two-pass computation returns too
C17_Witness ==
  /\ Applied /\ Len(cs.xs) = 2
  /\ cs.use_mean /\ cs.use_fast_variance /\ ~IsNone(cs.mask)
  /\ EverySliceSelected(cs.xs[1].shape, cs.axes, cs.mask)
  /\ \A i \in 1..Size(Val(cs.result).var) : Val(cs.result).var.data[i] >= ONE
  /\ \E i \in 1..Size(Val(cs.result).var) :
       Val(cs.result).var.data[i] # OtherVariance(cs).var.data[i]

\* the same on one device
C17_WitnessLocal ==
  /\ Applied /\ Len(cs.xs) = 1
  /\ cs.use_mean /\ ~cs.use_fast_variance /\ ~IsNone(cs.mask)
  /\ \A i \in 1..Size(Val(cs.result).var) : Val(cs.result).var.data[i] >= ONE
  /\ Val(cs.result).var = OtherVariance(cs).var

\* both variances are exactly equal (no rounding bound)
FastEqualsTwoPassExactly ==
  Applied => Val(cs.result).var = OtherVariance(cs).var

\* the elements of a finite set of integers in ascending order
RECURSIVE SortedSeq(_)
SortedSeq(S) ==
  IF S = {} THEN <<>>
  ELSE LET m == CHOOSE e \in S : \A f \in S : e <= f
       IN <<m>> \o SortedSeq(S \ {m})

\* the values of slice j that are left when the masked-out positions are
\* removed by hand
FilteredValues(x, axes, mask, j) ==
  LET idx == SortedSeq(SlicePositions(x.shape, axes, mask, j))
  IN [n \in 1..Len(idx) |-> x.data[idx[n] + 1]]

\* the mean and variance of a non-empty sequence of values
StatsOfValues(q, use_mean, use_fast_variance) ==
  LET mean_of(v) == FDiv(SumSeq(v), Len(v) * ONE)
      m == mean_of(q)
      m2 == mean_of([n \in 1..Len(q) |-> FMul(q[n], q[n])])
  IN IF ~use_mean THEN [mean |-> 0, var |-> m2]
     ELSE IF use_fast_variance THEN [mean |-> m, var |-> FMax(0, FSub(m2, FMul(m, m)))]
     ELSE [mean |-> m,
           var |-> mean_of([n \in 1..Len(q) |->
                              FMul(FSub(q[n], m), FSub(q[n], m))])]

\* the mask has one flag per index of the first axis: it selects whole rows
IsRowMask(mask, shape) ==
  /\ ~IsNone(mask)
  /\ Val(mask).shape = [k \in 1..Len(shape) |-> IF k = 1 THEN shape[1] ELSE 1]

\* x without the rows a row mask leaves out
KeepRows(x, mask) ==
  LET rows == SortedSeq({r \in 1..x.shape[1] : Val(mask).data[r]})
      width == Size(x) \div x.shape[1]
  IN [shape |-> [k \in 1..Rank(x) |-> IF k = 1 THEN Len(rows) ELSE x.shape[k]],
      data |-> [i \in 1..(Len(rows) * width) |->
                  x.data[(rows[((i - 1) \div width) + 1] - 1) * width
                         + ((i - 1) % width) + 1]]]

\* C18: with a mask that selects at least one position in every slice,
\* _compute_stats returns, slice by slice, the mean and variance of the
\* selected positions alone: those of the values left after filtering by
\* hand, and, for a mask of whole rows, those of the input without the
\* masked-out rows.
C18_MaskedStatsOfSelected ==
  (/\ Applied /\ Len(cs.xs) = 1 /\ ~IsNone(cs.mask)
   /\ EverySliceSelected(cs.xs[1].shape, cs.axes, cs.mask)) =>
     \E x \in {cs.xs[1]}, r \in {Val(cs.result)} :
       /\ Size(r.mean) = SliceCount(x.shape, cs.axes)
       /\ Size(r.var) = SliceCount(x.shape, cs.axes)
       /\ \A j \in 1..SliceCount(x.shape, cs.axes) :
            \E ref \in {StatsOfValues(FilteredValues(x, cs.axes, cs.mask, j - 1),
                                      cs.use_mean, cs.use_fast_variance)} :
              /\ r.mean.data[j] = ref.mean
              /\ r.var.data[j] = ref.var
       /\ (IsRowMask(cs.mask, x.shape) /\ 0 \in cs.axes) =>
            r = compute_stats(KeepRows(x, cs.mask), cs.axes, cs.use_mean,
                              cs.use_fast_variance, None)

\* a mask of whole rows that leaves one row out, reduced over the first axis:
\* the statistics differ from those of the unmasked input
C18_Witness ==
  /\ Applied /\ Len(cs.xs) = 1
  /\ IsRowMask(cs.mask, cs.xs[1].shape) /\ cs.axes = {0}
  /\ cs.use_mean
  /\ Val(cs.result) = compute_stats(KeepRows(cs.xs[1], cs.mask), cs.axes, cs.use_mean,
                                    cs.use_fast_variance, None)
  /\ \A i \in 1..Size(Val(cs.result).mean) :
       Val(cs.result).mean.data[i] #
         compute_stats(cs.xs[1], cs.axes, cs.use_mean, cs.use_fast_variance, None).mean.data[i]

\* a mask of the input's shape with slices of different counts
C18_WitnessElementwise ==
  /\ Applied /\ Len(cs.xs) = 1 /\ ~IsNone(cs.mask)
  /\ Val(cs.mask).shape = cs.xs[1].shape
  /\ EverySliceSelected(cs.xs[1].shape, cs.axes, cs.mask)
  /\ \E j, k \in 0..(SliceCount(cs.xs[1].shape, cs.axes) - 1) :
       Cardinality(SlicePositions(cs.xs[1].shape, cs.axes, cs.mask, j))
         # Cardinality(SlicePositions(cs.xs[1].shape, cs.axes, cs.mask, k))

-----------------------------------------------------------------------------
(* GroupNorm: one group, and the statistic of each channel *)

\* a call of the instance has been made, and it has default reduction axes
CalledDefaultGN ==
  /\ ~IsNone(gn)
  /\ gn_ret.status \in {"returned", "raised"}
  /\ IsNone(Val(gn).reduction_axes)

\* the LayerNorm that reduces over all non-batch axes of an input of `rank`,
\* with the scale, bias, epsilon and variance computation of a GroupNorm
LayerNormLike(self, rank) ==
  LayerNorm_init(NumChannels, self.epsilon, 1..(rank - 1), {-1},
                 self.use_fast_variance, self.scale, self.bias)

\* C19: for every input, GroupNorm with num_groups = 1 and default reduction
\* axes returns what LayerNorm reducing over all non-batch axes (1..rank-1)
\* returns with the same scale, bias and epsilon.
C19_OneGroupIsLayerNorm ==
  (CalledDefaultGN /\ Val(gn).num_groups = 1) =>
     /\ gn_ret.status = "returned"
     /\ Val(gn_ret.y) = LayerNorm_call(LayerNormLike(Val(gn), Rank(Val(gn_ret.x))),
                                       Val(gn_ret.x), gn_ret.mask)

\* a call of a one-group instance on a rank-3 input with a mask
C19_Witness ==
  /\ CalledDefaultGN /\ Val(gn).num_groups = 1
  /\ gn_ret.status = "returned"
  /\ Rank(Val(gn_ret.x)) = 3 /\ ~IsNone(gn_ret.mask)
  /\ NoNaN(Val(gn_ret.y))
  /\ \E i \in 1..Size(Val(gn_ret.y)) : Val(gn_ret.y).data[i] # Val(gn_ret.x).data[i]

\* a GroupNorm of more than one group does not return what that LayerNorm does
C19_WitnessGroupsDiffer ==
  /\ CalledDefaultGN /\ Val(gn).num_groups = 2
  /\ gn_ret.status = "returned" /\ NoNaN(Val(gn_ret.y))
  /\ Val(gn_ret.y) # LayerNorm_call(LayerNormLike(Val(gn), Rank(Val(gn_ret.x))),
                                    Val(gn_ret.x), gn_ret.mask)

\* the flat indices of the selected positions of batch element n of x whose
\* channel lies in group g
GroupPositions(x, mask, group_size, n, g) ==
  {i \in 0..(Size(x) - 1) :
     /\ LET c == Coords(i, x.shape)
        IN c[1] = n /\ c[Rank(x)] \div group_size = g
     /\ (IsNone(mask) \/ BroadcastAt(Val(mask), x.shape, i))}

\* the mean and variance of those positions
GroupStats(self, x, mask, n, g) ==
  LET idx == SortedSeq(GroupPositions(x, mask, self.group_size, n, g))
  IN StatsOfValues([k \in 1..Len(idx) |-> x.data[idx[k] + 1]], TRUE,
                   self.use_fast_variance)

\* (v - mean) * (rsqrt(var + epsilon) * scale) + bias, for channel c
NormalizedValue(self, v, st, c) ==
  FAdd(FMul(FSub(v, st.mean),
            FMul(rsqrt(FAdd(st.var, self.epsilon)), Val(self.scale).data[c + 1])),
       Val(self.bias).data[c + 1])

\* C20: with default reduction axes a call computes one (mean, var) per (batch
\* element, group) over all non-batch positions of the group's group_size
\* channels, and normalizes channel c of batch element n with the statistic
\* of group c // group_size of element n.
C20_PerGroupStatistics ==
  CalledDefaultGN =>
    /\ gn_ret.status = "returned"
    /\ \E self \in {Val(gn)}, x \in {Val(gn_ret.x)} :
         /\ Val(gn_ret.mean).shape = <<x.shape[1], NumChannels>>
         /\ Val(gn_ret.var).shape = <<x.shape[1], NumChannels>>
         /\ Val(gn_ret.y).shape = x.shape
         /\ \A n \in 0..(x.shape[1] - 1), g \in 0..(self.num_groups - 1) :
              \E st \in {GroupStats(self, x, gn_ret.mask, n, g)} :
                /\ \A c \in 0..(NumChannels - 1) :
                     c \div self.group_size = g =>
                       /\ Val(gn_ret.mean).data[n * NumChannels + c + 1] = st.mean
                       /\ Val(gn_ret.var).data[n * NumChannels + c + 1] = st.var
                /\ \A i \in 0..(Size(x) - 1) :
                     \A c \in {Coords(i, x.shape)[Rank(x)]} :
                       (Coords(i, x.shape)[1] = n /\ c \div self.group_size = g) =>
                          Val(gn_ret.y).data[i + 1] = NormalizedValue(self, x.data[i + 1], st, c)

\* a call of an instance of two groups of two channels on a rank-3 input: the
\* two groups of an element have different statistics
C20_Witness ==
  /\ CalledDefaultGN /\ gn_ret.status = "returned"
  /\ Val(gn).num_groups = 2 /\ Val(gn).group_size = 2
  /\ Rank(Val(gn_ret.x)) = 3
  /\ NoNaN(Val(gn_ret.y))
  /\ Val(gn_ret.mean).data[1] = Val(gn_ret.mean).data[2]
  /\ Val(gn_ret.mean).data[2] # Val(gn_ret.mean).data[3]
  /\ Val(gn_ret.mean).data[3] = Val(gn_ret.mean).data[4]

-----------------------------------------------------------------------------
(* _canonicalize_axes: properties *)

AppliedCA == ~IsNone(ca.result)

InputAxesCA == {as_iterable(ca.axes)[i] : i \in 1..Len(as_iterable(ca.axes))}

\* the tuple has no duplicates, no negative index, and holds exactly the
\* mapped input axes
CanonicalSetCA ==
  LET t == Val(ca.result)
  IN /\ \A i, j \in 1..Len(t) : t[i] = t[j] => i = j
     /\ \A i \in 1..Len(t) : t[i] >= 0 /\ t[i] < ca.rank
     /\ {t[i] : i \in 1..Len(t)} = {IF a < 0 THEN ca.rank + a ELSE a : a \in InputAxesCA}
     /\ {t[i] : i \in 1..Len(t)} = canonicalize_axes(ca.rank, InputAxesCA)

AscendingCA == \A i, j \in 1..Len(Val(ca.result)) : i < j => Val(ca.result)[i] < Val(ca.result)[j]

\* C21: for an int or an iterable of ints in [-rank, rank - 1] the tuple
\* returned by _canonicalize_axes is free of duplicates, holds only
\* non-negative indices (a negative a mapped to rank + a) and is sorted in
\* ascending order.
C21_CanonicalSorted == AppliedCA => CanonicalSetCA /\ AscendingCA

\* the part of C21 that the code does provide: deduplicated and non-negative
C21_CanonicalSet == AppliedCA => CanonicalSetCA

\* a negative and a duplicate axis were canonicalized
C21_Witness ==
  /\ AppliedCA /\ Len(ca.axes.items) = 2
  /\ ca.axes.items[1] < 0 /\ ca.axes.items[2] = ca.rank + ca.axes.items[1]
  /\ Len(Val(ca.result)) = 1

\* rank 9, axes (1, 8): the tuple comes back as (8, 1)
C21_WitnessUnsorted == AppliedCA /\ ca.rank = 9 /\ ca.axes.items = <<1, 8>> /\ Val(ca.result) = <<8, 1>>

-----------------------------------------------------------------------------
(* The statistics-normalizing layers: properties *)

CalledNL == ~IsNone(nl.result)

DisjointNL == Val(nl.result).stats_axes \cap Val(nl.result).feature_axes = {}

C22_WitnessDisjoint ==
  /\ CalledNL /\ nl.layer = "InstanceNorm" /\ Rank(nl.x) = 3
  /\ Cardinality(Val(nl.result).stats_axes) = 1 /\ DisjointNL

-----------------------------------------------------------------------------
(* WeightNorm: the norm of a rewritten parameter *)

ReturnedWN == wn_ret.status = "returned"

\* the sum of the squares of the values at a set of flat indices, in units
\* of 1 / ONE^2
RECURSIVE SumSquares(_, _)
SumSquares(data, pos) ==
  IF pos = {} THEN 0
  ELSE LET i == CHOOSE k \in pos : TRUE
       IN data[i + 1] * data[i + 1] + SumSquares(data, pos \ {i})

\* the L2 norm, in units of 1 / ONE, of feature column j of the tensor v
\* taken over the axes `red`
ColumnNorm(v, red, j) == ISqrt(SumSquares(v.data, SlicePositions(v.shape, red, None, j)))

\* the norm a call gave column j of the target at path p, the column's norm
\* before the call, and the scale the call multiplied it with
NormAfterWN(p, j) ==
  ColumnNorm(Val(wn).layer_instance[p], NonFeatureAxesWN(Val(wn), wn_ret.before[p]), j)

NormBeforeWN(p, j) ==
  ColumnNorm(wn_ret.before[p], NonFeatureAxesWN(Val(wn), wn_ret.before[p]), j)

ScaleUsedWN(p, j) ==
  IF Val(wn).use_scale THEN Val(wn_ret.log[p].scale).data[j + 1] ELSE ONE

ColumnsWN(p) == 0..(SliceCount(wn_ret.before[p].shape, NonFeatureAxesWN(Val(wn), wn_ret.before[p])) - 1)

\* the tolerance of a norm compared with `target`, in units of 1 / ONE: three
\* units and a 32nd of the target (the rsqrt of a sum of squares near 100 is
\* a value near ONE / 10, whose rounding alone is 2 percent of it)
WithinTolerance(norm, target) == Abs(norm - target) <= 3 + Abs(target) \div 32

\* C23 as stated: after a call, the L2 norm of every feature column of every
\* target parameter, taken over the reduction axes, is 1 when use_scale is
\* false and the feature's scale value when use_scale is true, within
\* tolerance.
C23_ColumnNormAsStated ==
  ReturnedWN =>
    \A p \in TargetsWN(Val(wn), wn_ret.before) : \A j \in ColumnsWN(p) :
      WithinTolerance(NormAfterWN(p, j), ScaleUsedWN(p, j))

\* C23, amended: a feature column that was not zero before the call has, after
\* it, the norm 1 (use_scale false) or the absolute value of the scale the
\* call used for that feature (use_scale true), within tolerance; a column
\* that was zero stays zero.
C23_ColumnNorm ==
  ReturnedWN =>
    \A p \in TargetsWN(Val(wn), wn_ret.before) : \A j \in ColumnsWN(p) :
      IF NormBeforeWN(p, j) = 0 THEN NormAfterWN(p, j) = 0
      ELSE WithinTolerance(NormAfterWN(p, j), Abs(ScaleUsedWN(p, j)))

\* a kernel whose columns had norms other than the scale 2 was rewritten
C23_Witness ==
  /\ ReturnedWN /\ Val(wn).use_scale /\ Val(wn).feature_axes = Some({-1})
  /\ \A j \in ColumnsWN(<<"kernel">>) :
       /\ ScaleUsedWN(<<"kernel">>, j) = 2 * ONE
       /\ ~WithinTolerance(NormBeforeWN(<<"kernel">>, j), 2 * ONE)
       /\ WithinTolerance(NormAfterWN(<<"kernel">>, j), 2 * ONE)

\* a zero column, still zero after the call
C23_WitnessZeroColumn ==
  /\ ReturnedWN /\ Val(wn).feature_axes = Some({-1})
  /\ NormBeforeWN(<<"kernel">>, 0) = 0 /\ NormAfterWN(<<"kernel">>, 0) = 0
  /\ NormAfterWN(<<"kernel">>, 1) > 0

\* a negative scale: the norm is its absolute value
C23_WitnessNegativeScale ==
  /\ ReturnedWN /\ Val(wn).use_scale
  /\ ScaleUsedWN(<<"kernel">>, 0) = -ONE
  /\ WithinTolerance(NormAfterWN(<<"kernel">>, 0), ONE)

-----------------------------------------------------------------------------
(* SpectralNorm: the largest singular value of a rewritten matrix *)

\* the Schur complement of the first entry of the n x n matrix A
SchurComplement(A, n) ==
  [shape |-> <<n - 1, n - 1>>,
   data |-> [k \in 1..((n - 1) * (n - 1)) |->
               At(A, ((k - 1) \div (n - 1)) + 2, ((k - 1) % (n - 1)) + 2)
                 - RoundDiv(At(A, ((k - 1) \div (n - 1)) + 2, 1)
                              * At(A, 1, ((k - 1) % (n - 1)) + 2), At(A, 1, 1))] \o <<>>]

\* is the symmetric n x n matrix A positive definite: every pivot of its
\* elimination is positive
RECURSIVE PosDef(_, _)
PosDef(A, n) ==
  /\ At(A, 1, 1) > 0
  /\ n > 1 => \E S \in {SchurComplement(A, n)} : PosDef(S, n - 1)

\* c^2 I - W^T W for a matrix W
GramGap(W, c) ==
  Only({[shape |-> G.shape,
         data |-> [k \in 1..Size(G) |->
                     (IF (k - 1) \div G.shape[2] = (k - 1) % G.shape[2]
                      THEN FMul(c, c) ELSE 0) - G.data[k]] \o <<>>] :
          G \in {matmul(transpose(W), W)}})

\* the largest singular value of W is below c: c^2 I - W^T W has only
\* positive eigenvalues
LargestSVBelow(W, c) == \E A \in {GramGap(W, c)} : PosDef(A, A.shape[1])

\* the largest singular value of W is 1 within a tenth
LargestSVNearOne(W) ==
  LargestSVBelow(W, ONE + ONE \div 10) /\ ~LargestSVBelow(W, ONE - ONE \div 10)

AsMatrix(t) == Reshape(t, <<Size(t) \div t.shape[Rank(t)], t.shape[Rank(t)]>>)

\* the matrices of the wrapped layer's own parameters a returned call rewrote
RewrittenSN ==
  {p \in ParamsSN(sn_ret.before) : Rank(sn_ret.before[p]) >= 2}

ReturnedSN == sn_ret.status = "returned"

\* the steps were sufficiently many: the sigma computed is the largest
\* singular value of the matrix, within a 32nd of it and 4 units (power
\* iteration approaches it from below)
ConvergedSN(p) ==
  IF \A i \in 1..Size(sn_ret.log[p].matrix) : sn_ret.log[p].matrix.data[i] = 0
  THEN sn_ret.log[p].sigma = 0
  ELSE LargestSVBelow(sn_ret.log[p].matrix,
                      sn_ret.log[p].sigma + sn_ret.log[p].sigma \div 32 + 4)

\* C24 as stated: after a call with sufficiently many power iteration steps
\* every matrix written back into the wrapped layer has largest singular
\* value 1, approximately.
C24_UnitSpectralNormAsStated ==
  ReturnedSN =>
    \A p \in RewrittenSN :
      ConvergedSN(p) => LargestSVNearOne(AsMatrix(Val(sn).layer_instance[p]))

\* C24, amended: a matrix for which the computed sigma is not zero is written
\* back with a largest singular value of at least 1, approximately, and of 1,
\* approximately, when the steps were sufficiently many for sigma to reach
\* the largest singular value; a matrix whose sigma is zero (an all-zero
\* matrix, or one whose rows are orthogonal to the starting u) is written
\* back unchanged, however many the steps.
C24_UnitSpectralNorm ==
  ReturnedSN =>
    \A p \in RewrittenSN :
      IF sn_ret.log[p].sigma # 0
      THEN /\ ~LargestSVBelow(AsMatrix(Val(sn).layer_instance[p]), ONE - ONE \div 10)
           /\ ConvergedSN(p) => LargestSVNearOne(AsMatrix(Val(sn).layer_instance[p]))
      ELSE Val(sn).layer_instance[p] = sn_ret.before[p]

\* a kernel whose largest singular value was above 2 was rewritten to one
\* with largest singular value near 1
C24_Witness ==
  /\ ReturnedSN /\ <<"kernel">> \in RewrittenSN
  /\ sn_ret.log[<<"kernel">>].sigma # 0 /\ ConvergedSN(<<"kernel">>)
  /\ ~LargestSVBelow(AsMatrix(sn_ret.before[<<"kernel">>]), 2 * ONE)
  /\ LargestSVNearOne(AsMatrix(Val(sn).layer_instance[<<"kernel">>]))

\* an all-zero kernel: sigma is zero and the kernel stays all zero
C24_WitnessZero ==
  /\ ReturnedSN /\ sn_ret.log[<<"kernel">>].sigma = 0 /\ ConvergedSN(<<"kernel">>)
  /\ \A i \in 1..Size(Val(sn).layer_instance[<<"kernel">>]) :
       Val(sn).layer_instance[<<"kernel">>].data[i] = 0

-----------------------------------------------------------------------------
(* RMSNorm: properties *)

CalledRMS == CalledNL /\ nl.layer = "RMSNorm"

\* x * (rsqrt(var + epsilon) * scale) for feature c, with nothing subtracted
\* and nothing added
RMSValue(self, v, var, c) ==
  FMul(v, IF IsNone(self.scale) THEN rsqrt(FAdd(var, self.epsilon))
          ELSE FMul(rsqrt(FAdd(var, self.epsilon)), Val(self.scale).data[c + 1]))

\* C25: with use_mean=False _compute_stats returns a mean that is zero in
\* every element, of the shape of the variance, and as variance the mean of
\* |x|^2 over the reduction axes with no mean subtracted; RMSNorm always
\* uses this mode and applies no bias.
C25_RMSStatistics ==
  CalledRMS =>
    \E self \in {nl.self}, x \in {nl.x}, r \in {Val(nl.result)} :
      \E st \in {Val(r.stats)}, slices \in {SliceCount(x.shape, self.reduction_axes)} :
        /\ st.mean.shape = st.var.shape
        /\ Size(st.var) = slices
        /\ \A j \in 1..slices : st.mean.data[j] = 0
        /\ EverySliceSelected(x.shape, self.reduction_axes, nl.mask) =>
             \A j \in 1..slices :
               /\ st.var.data[j]
                    = StatsOfValues(FilteredValues(x, self.reduction_axes, nl.mask, j - 1),
                                    FALSE, self.use_fast_variance).var
               /\ st.var.data[j] >= 0
               /\ \A i \in SlicePositions(x.shape, self.reduction_axes, None, j - 1) :
                    Val(r.y).data[i + 1]
                      = RMSValue(self, x.data[i + 1], st.var.data[j],
                                 Coords(i, x.shape)[Rank(x)])

\* an RMSNorm call with a mask on an input whose mean is not zero: the
\* variance returned is not the one about the mean
C25_Witness ==
  /\ CalledRMS /\ ~IsNone(nl.mask) /\ ~IsNone(nl.self.scale)
  /\ EverySliceSelected(nl.x.shape, nl.self.reduction_axes, nl.mask)
  /\ \E j \in 1..Size(Val(Val(nl.result).stats).var) :
       /\ StatsOfValues(FilteredValues(nl.x, nl.self.reduction_axes, nl.mask, j - 1),
                        TRUE, nl.self.use_fast_variance).mean # 0
       /\ Val(Val(nl.result).stats).var.data[j]
            # StatsOfValues(FilteredValues(nl.x, nl.self.reduction_axes, nl.mask, j - 1),
                            TRUE, nl.self.use_fast_variance).var

-----------------------------------------------------------------------------
(* SpectralNorm: a call that fails *)

SNRaiseStep == sn_ret'.status = "raised" /\ calls' = calls + 1

\* C26: when a call fails because of error_on_non_matrix no parameter of the
\* wrapped layer has been modified: every entry, the matrices processed
\* before the offending tensor included, holds its pre-call value, no entry
\* was added, and the wrapped layer has not been invoked.
C26_FailedCallLeavesLayer ==
  [][SNRaiseStep =>
       /\ Val(sn).error_on_non_matrix
       /\ \E p \in DOMAIN sn_ret'.log : sn_ret'.log[p].guard = "raise"
       /\ DOMAIN Val(sn').layer_instance = DOMAIN Val(sn).layer_instance
       /\ \A p \in DOMAIN Val(sn).layer_instance :
            Val(sn').layer_instance[p] = Val(sn).layer_instance[p]
       /\ IsNone(sn_ret'.y)
  ]_vars

\* a failed call that had normalized a matrix before it met the rank-3
\* kernel: the matrix holds its pre-call value
C26_Witness ==
  /\ sn # None /\ sn_ret.status = "raised"
  /\ \E p \in DOMAIN sn_ret.log :
       /\ sn_ret.log[p].guard = "normalize"
       /\ sn_ret.log[p].sigma # ONE
       /\ Val(sn).layer_instance[p] = sn_ret.before[p]
  /\ \E p \in DOMAIN sn_ret.log : sn_ret.log[p].guard = "raise"

-----------------------------------------------------------------------------
(* GroupNorm: the constructor over signed arguments *)

\* GroupNorm.__init__ parameters: num_features, and num_groups and
\* group_size as any int (or None)
SignedArgsGN ==
  [num_features : 1..NumChannels,
   num_groups : OptInt(((-NumChannels)..NumChannels) \cup {DefaultNumGroups}),
   group_size : OptInt((-NumChannels)..NumChannels)]

InitGNArgs ==
  /\ gn = None
  /\ gn_ret \in {[status |-> "none", args |-> Some(a)] : a \in SignedArgsGN}
  /\ bn = None /\ bn_ret = None /\ wn = None /\ wn_ret = None
  /\ sn = None /\ sn_ret = None /\ inn = None /\ inn_ret = None /\ cs = None
  /\ calls = 0
  /\ ca = None /\ nl = None

\* GroupNorm(num_features, num_groups=..., group_size=...)
GNConstruct ==
  /\ gn_ret.status = "none"
  /\ \E r \in {GroupNorm_init(Val(gn_ret.args).num_features, Val(gn_ret.args).num_groups,
                              Val(gn_ret.args).group_size, EpsilonGN, None, TRUE,
                              None, None)} :
       /\ gn' = IF r.raised THEN None ELSE Some(r.self)
       /\ gn_ret' = [gn_ret EXCEPT !.status = IF r.raised THEN "init_raised"
                                               ELSE "constructed"]
  /\ UNCHANGED <<bn, bn_ret, wn, wn_ret, sn, sn_ret, calls, inn, inn_ret, cs, ca, nl>>

NextGNArgs == GNConstruct

SpecGNArgs == InitGNArgs /\ [][NextGNArgs]_vars

ConstructedGN == gn_ret.status = "constructed"

\* C27: after every successful construction num_groups and group_size are
\* both positive and num_groups * group_size = num_features.
C27_PositiveFactorization ==
  ConstructedGN =>
    /\ Val(gn).num_groups > 0
    /\ Val(gn).group_size > 0
    /\ Val(gn).num_groups * Val(gn).group_size = Val(gn_ret.args).num_features

\* what the constructor does establish: the product is num_features, the two
\* have one sign, and num_groups given by the caller is positive
C27_Factorization ==
  ConstructedGN =>
    /\ Val(gn).num_groups * Val(gn).group_size = Val(gn_ret.args).num_features
    /\ (Val(gn).num_groups > 0) = (Val(gn).group_size > 0)
    /\ IsNone(Val(gn_ret.args).group_size) => Val(gn).num_groups > 0

\* a construction with a negative group_size that succeeded
C27_WitnessNegative ==
  /\ ConstructedGN
  /\ Val(gn_ret.args).group_size = Some(-2)
  /\ Val(gn).num_groups = -2 /\ Val(gn).group_size = -2

-----------------------------------------------------------------------------
(* BatchNorm: the stored variance over a range of momenta *)

\* momentum: the ends and the inside of [0, 1], and one value outside
MomentaBN == {0, ONE \div 4, ONE, 2 * ONE}

\* the inputs of before, and one whose fast variance rounds below zero
ArgsBNVar == ArgsBN \cup {<<NearConstant(<<BatchSize, NumFeatures>>), None>>}

InitBNVar ==
  /\ bn \in {BatchNorm_init(NumFeatures, Some(FALSE), -1, momentum, EpsilonBN, fast,
                            None, None) :
               momentum \in MomentaBN, fast \in BOOLEAN}
  /\ bn_ret = [status |-> "init", x |-> Full(<<BatchSize, NumFeatures>>, 0),
               use_running_average |-> None, mask |-> None,
               mode |-> None, y |-> None]
  /\ wn = None /\ wn_ret = None /\ sn = None /\ sn_ret = None
  /\ gn = None /\ gn_ret = None /\ inn = None /\ inn_ret = None /\ cs = None
  /\ calls = 0
  /\ ca = None /\ nl = None

BNCallVar ==
  /\ calls < MaxCalls
  /\ \E a \in ArgsBNVar, ura \in OptBool :
       \E r \in {BatchNorm_call(bn, a[1], ura, a[2])} :
          /\ bn' = r.self
          /\ bn_ret' = [status |-> IF r.raised THEN "raised" ELSE "returned",
                        x |-> a[1], use_running_average |-> ura, mask |-> a[2],
                        mode |-> r.mode, y |-> r.y]
  /\ calls' = calls + 1
  /\ UNCHANGED <<wn, wn_ret, sn, sn_ret, gn, gn_ret, inn, inn_ret, cs, ca, nl>>

NextBNVar == BNCallVar

SpecBNVar == InitBNVar /\ [][NextBNVar]_vars

\* every element of the stored var is a number and is >= 0
NonNegVar(self) == \A i \in 1..Size(self.var) : self.var.data[i] # NaN /\ self.var.data[i] >= 0

\* the mask of the call selects at least one position for every feature
MaskCoversBN ==
  EverySliceSelected(bn_ret'.x.shape, BN_reduction_axes(bn, bn_ret'.x), bn_ret'.mask)

MomentumInRange(self) == 0 <= self.momentum /\ self.momentum <= ONE

\* C28: with 0 <= momentum <= 1 the stored running var starts at 1 and no
\* call, in running-average mode or not, with a mask selecting at least one
\* position per feature, takes it from every element >= 0 to an element < 0.
C28_RunningVarNonNegative ==
  /\ MomentumInRange(bn) =>
       bn.var = Full(<<NumFeatures>>, ONE) /\ bn.mean = Full(<<NumFeatures>>, 0)
  /\ [][(MomentumInRange(bn) /\ NonNegVar(bn) /\ MaskCoversBN) => NonNegVar(bn')]_vars

\* a second call not in running-average mode, on the input whose fast
\* variance rounds below zero, after which the stored var has moved and is
\* still >= 0
C28_Witness ==
  /\ calls = 2 /\ bn_ret.status = "returned" /\ bn_ret.mode = Some(FALSE)
  /\ MomentumInRange(bn) /\ bn.momentum < ONE /\ bn.use_fast_variance
  /\ bn_ret.x = NearConstant(<<BatchSize, NumFeatures>>)
  /\ bn.var # Full(<<NumFeatures>>, ONE)
  /\ NonNegVar(bn)

\* outside the range: with momentum = 2 a stored var below zero
C28_WitnessOutOfRange ==
  /\ bn.momentum = 2 * ONE
  /\ \E i \in 1..Size(bn.var) : bn.var.data[i] # NaN /\ bn.var.data[i] < 0

\* a mask that leaves a feature without a position: the stored var is not a number
C28_WitnessUncovered ==
  /\ MomentumInRange(bn) /\ bn_ret.status = "returned"
  /\ \E i \in 1..Size(bn.var) : bn.var.data[i] = NaN

-----------------------------------------------------------------------------
(* WeightNorm: a call after a call *)

\* epsilon = 0, and an epsilon as large as the entries
EpsilonsWN == {0, ONE}

InitWNExact ==
  /\ wn \in {Some(WeightNorm_init(Dense(kernel, Tabulate(<<FanOut>>, 1)),
                                  epsilon, use_scale, c, feature_axes,
                                  variable_filters, 0)) :
               kernel \in KernelsWN, epsilon \in EpsilonsWN, use_scale \in BOOLEAN,
               c \in {ONE, 2 * ONE, -ONE},
               feature_axes \in {Some({-1}), None},
               variable_filters \in {Some({"kernel"}), None}}
  /\ wn_ret = [status |-> "init"]
  /\ bn = None /\ bn_ret = None /\ sn = None /\ sn_ret = None
  /\ gn = None /\ gn_ret = None /\ inn = None /\ inn_ret = None /\ cs = None
  /\ calls = 0
  /\ ca = None /\ nl = None

SpecWNExact == InitWNExact /\ [][NextWN]_vars

\* a call that follows a call, with nothing assigned in between
WNSecondCallStep == ReturnedWN /\ WNCallStep

\* the paths the previous call normalized
NormalizedWN == TargetsWN(Val(wn), wn_ret.before)

\* the value the previous call found at p held numbers only, and none of
\* its feature columns was zero
NonZeroColumnsWN(p) ==
  /\ \A i \in 1..Size(wn_ret.before[p]) : wn_ret.before[p].data[i] # NaN
  /\ \A j \in ColumnsWN(p) : NormBeforeWN(p, j) > 0

\* no scale is used, or the scale stored for p is the one the previous call
\* multiplied with and is positive in every feature
PositiveScaleWN(p) ==
  Val(wn).use_scale =>
    LET scale == Val(wn).layer_instance[Append(p, "scale")]
    IN /\ wn_ret.log[p].scale = Some(scale)
       /\ \A i \in 1..Size(scale) : scale.data[i] > 0

\* the call left the value at p as it was, up to rounding
UnchangedByCallWN(p) ==
  \A i \in 1..Size(Val(wn).layer_instance[p]) :
    WithinTolerance(Val(wn').layer_instance[p].data[i], Val(wn).layer_instance[p].data[i])

\* C29: with epsilon = 0, a target parameter whose feature columns are all
\* non-zero and a positive scale (or use_scale false), a second call leaves
\* the parameter at the value the first call gave it.
C29_RenormalizeNoOp ==
  [][WNSecondCallStep /\ Val(wn).epsilon = 0 =>
       \A p \in NormalizedWN :
         NonZeroColumnsWN(p) /\ PositiveScaleWN(p) => UnchangedByCallWN(p)
  ]_vars

\* two calls in a row with epsilon = 0 and the scale 2: the first call
\* changed the kernel, the second did not
C29_Witness ==
  /\ ReturnedWN /\ calls = 2 /\ Val(wn).epsilon = 0 /\ Val(wn).use_scale
  /\ Val(wn).feature_axes = Some({-1})
  /\ <<"kernel", "scale">> \in DOMAIN wn_ret.before
  /\ wn_ret.before[<<"kernel", "scale">>] = Full(<<FanOut>>, 2 * ONE)
  /\ \A i \in 1..Size(wn_ret.before[<<"kernel">>]) :
       /\ wn_ret.before[<<"kernel">>].data[i] # 0
       /\ Abs(wn_ret.before[<<"kernel">>].data[i]) <= 2 * ONE + 3
       /\ WithinTolerance(Val(wn).layer_instance[<<"kernel">>].data[i],
                          wn_ret.before[<<"kernel">>].data[i])

\* the same with the scale -1: the second call flips the sign of the kernel
C29_WitnessNegativeScale ==
  /\ ReturnedWN /\ calls = 2 /\ Val(wn).epsilon = 0 /\ Val(wn).use_scale
  /\ <<"kernel", "scale">> \in DOMAIN wn_ret.before
  /\ wn_ret.before[<<"kernel", "scale">>] = Full(<<FanOut>>, -ONE)
  /\ \E i \in 1..Size(wn_ret.before[<<"kernel">>]) :
       /\ wn_ret.before[<<"kernel">>].data[i] # NaN
       /\ ~WithinTolerance(Val(wn).layer_instance[<<"kernel">>].data[i],
                           wn_ret.before[<<"kernel">>].data[i])
       /\ WithinTolerance(Val(wn).layer_instance[<<"kernel">>].data[i],
                          -wn_ret.before[<<"kernel">>].data[i])

\* the same with epsilon = 1 and no scale: the second call shrinks the kernel
C29_WitnessEpsilon ==
  /\ ReturnedWN /\ calls = 2 /\ Val(wn).epsilon = ONE /\ ~Val(wn).use_scale
  /\ \E i \in 1..Size(wn_ret.before[<<"kernel">>]) :
       /\ wn_ret.before[<<"kernel">>].data[i] # NaN
       /\ ~WithinTolerance(Val(wn).layer_instance[<<"kernel">>].data[i],
                           wn_ret.before[<<"kernel">>].data[i])

-----------------------------------------------------------------------------
(* _compute_stats: a mask that leaves a slice empty *)

\* the slices in which the mask selects no position
EmptySlices(shape, axes, mask) ==
  {j \in 0..(SliceCount(shape, axes) - 1) : SlicePositions(shape, axes, mask, j) = {}}

\* C30: when the mask selects no position in some slice, the call returns
\* (it does not raise) and the variance of that slice is undefined, on the
\* fast-variance path with its max(0, .) as on the other; so is the mean
\* wherever a mean is computed (use_mean), and no defined value such as zero
\* stands in for either.
C30_EmptySliceUndefined ==
  Applied =>
    \E r \in {Val(cs.result)} :
      \A j \in EmptySlices(cs.xs[1].shape, cs.axes, cs.mask) :
        /\ r.var.data[j + 1] = NaN
        /\ cs.use_mean => r.mean.data[j + 1] = NaN

\* a mask over the last axis that leaves one slice empty, on the
\* fast-variance path: that slice's mean and variance are undefined, those
\* of another slice are numbers
C30_Witness ==
  /\ Applied /\ cs.use_mean /\ cs.use_fast_variance /\ Len(cs.xs) = 1
  /\ \E j \in EmptySlices(cs.xs[1].shape, cs.axes, cs.mask) :
       /\ Val(cs.result).mean.data[j + 1] = NaN
       /\ Val(cs.result).var.data[j + 1] = NaN
  /\ \E k \in 0..(SliceCount(cs.xs[1].shape, cs.axes) - 1) :
       /\ Val(cs.result).mean.data[k + 1] # NaN
       /\ Val(cs.result).var.data[k + 1] # NaN

\* use_mean false: the variance of the empty slice is undefined, the mean
\* returned is the zero of every slice
C30_WitnessNoMean ==
  /\ Applied /\ ~cs.use_mean
  /\ \E j \in EmptySlices(cs.xs[1].shape, cs.axes, cs.mask) :
       /\ Val(cs.result).mean.data[j + 1] = 0
       /\ Val(cs.result).var.data[j + 1] = NaN

====
